---- MODULE Spec2Model ----
(***************************************************************************)
(* Controller state machines of the adjustable-bed BLE integration:        *)
(* OkinCB24Controller (beds/okin_cb24.py) and JensenController             *)
(* (beds/jensen.py).  One controller serves one BLE connection; its        *)
(* operations are coroutines of one asyncio task, so a step of the model   *)
(* is the code that runs between two await points.                         *)
(***************************************************************************)
EXTENDS Integers, Sequences, FiniteSets, TLC

(***************************************************************************)
(* Bounds of the model.                                                    *)
(***************************************************************************)
\* Largest value of the monotonic clock (seconds).
MaxNow == 26
\* coordinator.motor_pulse_count, a configuration value of the coordinator.
MotorPulseCount == 3

(***************************************************************************)
(* Program constants.                                                      *)
(***************************************************************************)
_PRESET_CONTINUOUS_COUNT == 55
_ADAPTIVE_PRESET_RETRY_WINDOW_SECONDS == 12
RetryCountOne == 2 - 1
_ADAPTIVE_PRESET_PROMOTION_RETRY_COUNT == 2
\* repeat_count of JensenController._move_with_stop
JensenMoveRepeatCount == 10
\* repeat_count of JensenController.preset_flat / preset_memory
JensenPresetRepeatCount == 100

PRESET_FLAT == 134217728
PRESET_MEMORY_1 == 8192
PRESET_MEMORY_2 == 16384
MOTOR_HEAD_UP == 1
MOTOR_HEAD_DOWN == 2
MOTOR_FEET_UP == 4
MOTOR_FEET_DOWN == 8

\* None of `_last_one_shot_preset_command: int | None`
NoCommand == -1
\* "no packet written yet" in the per-operation write log
NoPacket == <<>>

Variants == {"old", "cb24", "cb27new", "unknown"}
_LEGACY_PROTOCOL_VARIANTS == {"old", "cb24", "cb27", "cb24_ab", "cb1221", "dacheng"}
_NEW_PROTOCOL_VARIANTS == {"new", "cb27new"}
_CONTINUOUS_PRESET_VARIANTS == {"old"}

Motors == {"head", "feet"}
Directions == {"up", "down", "stop"}
PresetCommands == {PRESET_MEMORY_1, PRESET_MEMORY_2}
\* The clock advances by a step inside the retry window or by one beyond it.
TickSteps == {_ADAPTIVE_PRESET_RETRY_WINDOW_SECONDS, _ADAPTIVE_PRESET_RETRY_WINDOW_SECONDS + 1}

(***************************************************************************)
(* Packet encoders.                                                        *)
(***************************************************************************)
\* What an encoder gives when it raises ValueError instead of returning bytes.
ValueError == <<"ValueError">>

\* 0 <= value <= 0xFFFFFFFF (0xFFFFFFFF is written through its upper half:
\* value > 0xFFFFFFFF exactly when value >> 16 > 0xFFFF)
InRange32(value) == value >= 0 /\ value \div 65536 <= 65535

int_to_bytes_little_endian(value) ==
    IF ~InRange32(value) THEN ValueError
    ELSE << value % 256, (value \div 256) % 256,
            (value \div 65536) % 256, (value \div 16777216) % 256 >>

\* value >> k is the floor of value / 2^k and x & 0xFF is x modulo 256, also
\* for negative integers
int_to_bytes(value) ==
    IF ~InRange32(value) THEN ValueError
    ELSE << (value \div 16777216) % 256, (value \div 65536) % 256,
            (value \div 256) % 256, value % 256 >>

build_okin_command(command_value) ==
    IF int_to_bytes(command_value) = ValueError THEN ValueError
    ELSE <<4, 2>> \o int_to_bytes(command_value)

build_cb24_command(command_value, sel) ==
    IF int_to_bytes(command_value) = ValueError THEN ValueError
    ELSE <<5, 2>> \o int_to_bytes(command_value) \o <<sel>>

build_cbnew_motor_command(command_value) ==
    << 42, 0, 0, 1, 1, 4, command_value % 256, (command_value \div 256) % 256,
       (command_value \div 65536) % 256, (command_value \div 16777216) % 256 >>

build_cbnew_memory_command(memory_index) ==
    <<42, 0, 0, 1, 3, 1, memory_index % 256>>

build_cbnew_stop_command == <<170, 0, 0, 1, 2, 0>>

\* _CBNEW_MEMORY_BY_COMMAND.get(command_value); 0 stands for None
CBNEW_MEMORY_BY_COMMAND(command_value) ==
    CASE command_value = PRESET_FLAT -> 9
      [] command_value = 4096 -> 1
      [] command_value = PRESET_MEMORY_1 -> 2
      [] command_value = PRESET_MEMORY_2 -> 3
      [] command_value = 32768 -> 4
      [] command_value = 65536 -> 5
      [] OTHER -> 0

JENSEN_MOTOR_STOP == <<16, 0, 0, 0, 0, 0>>
JENSEN_MOTOR_HEAD_UP == <<16, 1, 0, 0, 0, 0>>
JENSEN_MOTOR_HEAD_DOWN == <<16, 2, 0, 0, 0, 0>>
JENSEN_MOTOR_FOOT_UP == <<16, 16, 0, 0, 0, 0>>
JENSEN_MOTOR_FOOT_DOWN == <<16, 32, 0, 0, 0, 0>>
JENSEN_PRESET_FLAT == <<16, 129, 0, 0, 0, 0>>
JENSEN_PRESET_MEMORY_RECALL == <<16, 128, 0, 0, 0, 0>>

(***************************************************************************)
(* State.                                                                  *)
(***************************************************************************)
VARIABLES
    kind,                               \* "jensen" or "cb24": the controller class ("none": not created yet)
    factory_args,                       \* the arguments of create_controller
    ctor_args,                          \* the arguments of OkinCB24Controller.__init__
    _bed_selection,
    _protocol_variant,
    _is_new_protocol,
    _continuous_presets,
    _adaptive_preset_fallback,
    _last_one_shot_preset_command,
    _last_one_shot_preset_monotonic,
    _same_preset_retry_count,
    _motor_state,                       \* motor -> "up" | "down" | "none" (absent key)
    now,                                \* time.monotonic()
    connected,                          \* client is not None and client.is_connected
    cancel_command,                     \* coordinator.cancel_command.is_set()
    pc,                                 \* where the controller's task is suspended
    op,                                 \* the operation in progress
    frame,                              \* the write_command call the task is inside
    exc,                                \* outcome of the try block, pending in finally
    shielded,                           \* the tasks created by asyncio.shield
    result,                             \* what the operation gave its caller
    log,                                \* what this operation did (history)
    _serial,                            \* RemacroController._serial
    packet,                             \* the packet an encoder built last
    n_packets,                          \* how many packets were built (history)
    _initialized,                       \* OkinNordicController._initialized
    _features,                          \* JensenController._features (the flags as an integer)
    _config_loaded,
    _lights_on,
    _underbed_lights_on,
    _massage_head_on,
    _massage_foot_on,
    _massage_on,                        \* OkinCB24Controller: massage on/off, levels and mode
    _massage_head_level,
    _massage_foot_level,
    _massage_mode,
    notifying,                          \* the client has a subscription that query_config opened
    call,                               \* the last call of an encoder or handler (history)
    writes,                             \* the packets that call wrote, oldest first (history)
    updates,                            \* the callbacks that call invoked (history)
    reqs,                               \* the last preset requests, newest last (history)
    everPromoted                        \* a request has been promoted (history)

encVars == <<_serial, packet, n_packets, _initialized>>
massageVars == <<_massage_on, _massage_head_level, _massage_foot_level, _massage_mode>>
featVars == <<_features, _config_loaded, _lights_on, _underbed_lights_on,
              _massage_head_on, _massage_foot_on, massageVars, notifying>>
callVars == <<call, writes, updates>>
cfgVars == <<kind, factory_args, ctor_args, _bed_selection, _protocol_variant, _is_new_protocol,
             encVars, featVars, callVars>>
trackerVars == <<_continuous_presets, _adaptive_preset_fallback,
                 _last_one_shot_preset_command, _last_one_shot_preset_monotonic,
                 _same_preset_retry_count>>
envVars == <<now, connected, cancel_command>>
taskVars == <<pc, op, frame, exc, shielded, result>>
histVars == <<reqs, everPromoted>>
vars == <<cfgVars, trackerVars, _motor_state, envVars, taskVars, log, histVars>>

NoOp == [name |-> "none", motor |-> "none", direction |-> "none",
         command_value |-> 0, stop |-> FALSE]
NoFrame == [command |-> NoPacket, repeat_count |-> 0, i |-> 0,
            cancel_event |-> "none", role |-> "none"]
NoResult == [exc |-> "none", origin |-> "none"]
NoCleanup == [called |-> FALSE, cancel_event |-> "none", conn |-> "unknown", out |-> "none"]
EmptyLog == [calls |-> <<>>, lastWrite |-> NoPacket, nWrites |-> 0, primaryWrites |-> 0,
             primaryConn |-> "unknown",
             cleanup |-> NoCleanup, cancelled |-> "none"]
NoMotorState == [m \in Motors |-> "none"]
\* The controller was constructed directly, not by create_controller.
NoFactoryArgs == [protocol_variant |-> "None", device_name |-> "", manufacturer_data |-> <<>>]
NoCtorArgs == [protocol_variant |-> "None", adaptive_preset_fallback |-> FALSE]

(***************************************************************************)
(* Construction.                                                           *)
(***************************************************************************)
\* OkinCB24Controller.__init__: the value of _continuous_presets
CB24InitContinuous(variant) ==
    LET is_new == variant \in _NEW_PROTOCOL_VARIANTS
    IN  IF ~is_new /\ variant \notin _LEGACY_PROTOCOL_VARIANTS
        THEN TRUE
        ELSE variant \in _CONTINUOUS_PRESET_VARIANTS /\ ~is_new

CB24InitAdaptiveAsPassed(variant, adaptive_preset_fallback) == adaptive_preset_fallback

\* OkinCB24Controller.__init__: the value of _adaptive_preset_fallback
CB24InitAdaptive(variant, adaptive_preset_fallback) ==
    LET is_new == variant \in _NEW_PROTOCOL_VARIANTS
        cont == variant \in _CONTINUOUS_PRESET_VARIANTS /\ ~is_new
    IN  IF ~is_new /\ variant \notin _LEGACY_PROTOCOL_VARIANTS
        THEN FALSE
        ELSE adaptive_preset_fallback /\ ~is_new /\ ~cont

\* RemacroController.__init__ (the serial starts at 1); no packet built yet
InitEncoders ==
    /\ _serial = 1
    /\ packet = NoPacket
    /\ n_packets = 0
    /\ _initialized = FALSE

\* JensenController.__init__: no feature known, nothing switched on;
\* OkinCB24Controller.__init__: lights and massage off, levels and mode 0
InitFeatures ==
    /\ _features = 0
    /\ _config_loaded = FALSE
    /\ _lights_on = FALSE
    /\ _underbed_lights_on = FALSE
    /\ _massage_head_on = FALSE
    /\ _massage_foot_on = FALSE
    /\ _massage_on = FALSE
    /\ _massage_head_level = 0
    /\ _massage_foot_level = 0
    /\ _massage_mode = 0
    /\ notifying = FALSE

NoCall == [method |-> "none", arg |-> <<>>, raised |-> "none", seq |-> 0]

InitCalls ==
    /\ call = NoCall
    /\ writes = <<>>
    /\ updates = <<>>

InitCommon ==
    /\ InitEncoders
    /\ InitFeatures
    /\ InitCalls
    /\ _bed_selection = 0
    /\ _last_one_shot_preset_command = NoCommand
    /\ _last_one_shot_preset_monotonic = 0
    /\ _same_preset_retry_count = 0
    /\ _motor_state = NoMotorState
    /\ now = 0
    /\ cancel_command = FALSE
    /\ pc = "idle"
    /\ op = NoOp
    /\ frame = NoFrame
    /\ exc = "none"
    /\ shielded = [own |-> [state |-> "none", cancel_event |-> "none"],
                   stale |-> [state |-> "none", cancel_event |-> "none"]]
    /\ result = NoResult
    /\ log = EmptyLog
    /\ reqs = <<>>
    /\ everPromoted = FALSE

InitCB24 ==
    /\ kind = "cb24"
    /\ factory_args = NoFactoryArgs
    /\ \E variant \in Variants, adaptive_preset_fallback \in BOOLEAN :
          /\ ctor_args = [protocol_variant |-> variant,
                          adaptive_preset_fallback |-> adaptive_preset_fallback]
          /\ _protocol_variant = variant
          /\ _is_new_protocol = (variant \in _NEW_PROTOCOL_VARIANTS)
          /\ _continuous_presets = CB24InitContinuous(variant)
          /\ _adaptive_preset_fallback = CB24InitAdaptive(variant, adaptive_preset_fallback)

InitJensen ==
    /\ kind = "jensen"
    /\ factory_args = NoFactoryArgs
    /\ ctor_args = NoCtorArgs
    /\ _protocol_variant = "none"
    /\ _is_new_protocol = FALSE
    /\ _continuous_presets = FALSE
    /\ _adaptive_preset_fallback = FALSE

Init ==
    /\ InitCommon
    /\ connected \in BOOLEAN
    /\ InitCB24 \/ InitJensen

(***************************************************************************)
(* write_command: the code that runs without suspending.                   *)
(***************************************************************************)
SharedCancelIsSet(cancel_event) == cancel_command

\* jensen.py: effective_cancel = cancel_event or coordinator.cancel_command,
\* then effective_cancel.is_set().  A local Event() is never set.
JensenCancelIsSet(cancel_event) ==
    IF cancel_event = "fresh" THEN FALSE ELSE cancel_command

WriteEntryIgnoringConnection(cancel_event) ==
    IF JensenCancelIsSet(cancel_event) THEN "return" ELSE "write"

\* JensenController.write_command from its entry to the first await:
\* "ConnectionError" (raised), "return" (cancelled), "write" (write_gatt_char called)
JensenWriteEntry(cancel_event) ==
    IF ~connected THEN "ConnectionError"
    ELSE IF JensenCancelIsSet(cancel_event) THEN "return"
    ELSE "write"

NextRepeatWithoutCheck(cancel_event) == "write"

\* JensenController.write_command after asyncio.sleep: the next loop iteration
JensenNextRepeat(cancel_event) ==
    IF JensenCancelIsSet(cancel_event) THEN "return" ELSE "write"

\* BedController._write_gatt_with_retry, the transport helper behind
\* OkinCB24Controller.write_command (spec 4.2: checks the cancel event between
\* repeats, raises a connection-class error when not connected).
BaseCancelIsSet(cancel_event) ==
    IF cancel_event = "fresh" THEN FALSE ELSE cancel_command

BaseWriteEntry(cancel_event) ==
    IF ~connected THEN "ConnectionError"
    ELSE IF BaseCancelIsSet(cancel_event) THEN "return"
    ELSE "write"

BaseNextRepeat(cancel_event) ==
    IF BaseCancelIsSet(cancel_event) THEN "return" ELSE "write"

WriteEntry(cancel_event) ==
    IF kind = "jensen" THEN JensenWriteEntry(cancel_event) ELSE BaseWriteEntry(cancel_event)

NextRepeat(cancel_event) ==
    IF kind = "jensen" THEN JensenNextRepeat(cancel_event) ELSE BaseNextRepeat(cancel_event)

(***************************************************************************)
(* Packets of the controller.                                              *)
(***************************************************************************)
_build_command(command_value) == build_cb24_command(command_value, _bed_selection)

_build_motor_command(command_value) ==
    IF _is_new_protocol THEN build_cbnew_motor_command(command_value)
    ELSE _build_command(command_value)

_build_stop_command ==
    IF _is_new_protocol THEN build_cbnew_stop_command ELSE _build_command(0)

BuildLegacyPresetPacket(command_value) == _build_command(command_value)

_build_preset_command(command_value) ==
    IF ~_is_new_protocol THEN _build_command(command_value)
    ELSE IF CBNEW_MEMORY_BY_COMMAND(command_value) = 0 THEN _build_command(command_value)
    ELSE build_cbnew_memory_command(CBNEW_MEMORY_BY_COMMAND(command_value))

_get_move_command(state) ==
    (IF state["head"] = "up" THEN MOTOR_HEAD_UP
     ELSE IF state["head"] = "down" THEN MOTOR_HEAD_DOWN ELSE 0)
    + (IF state["feet"] = "up" THEN MOTOR_FEET_UP
       ELSE IF state["feet"] = "down" THEN MOTOR_FEET_DOWN ELSE 0)

JensenMoveCommand(motor, direction) ==
    IF motor = "head"
    THEN (IF direction = "up" THEN JENSEN_MOTOR_HEAD_UP ELSE JENSEN_MOTOR_HEAD_DOWN)
    ELSE (IF direction = "up" THEN JENSEN_MOTOR_FOOT_UP ELSE JENSEN_MOTOR_FOOT_DOWN)

StopPacket == IF kind = "jensen" THEN JENSEN_MOTOR_STOP ELSE _build_stop_command

(***************************************************************************)
(* try / finally: the cleanup STOP of a movement or a continuous preset.   *)
(***************************************************************************)
JensenMoveSendsStopOnSuccessOnly(outcome) == outcome = "ok"

\* JensenController._move_with_stop: the STOP call sits in a finally block, so it
\* runs whatever the outcome of the movement write.
JensenMoveSendsStop(outcome) == outcome \in {"ok", "BleakError", "ConnectionError", "CancelledError"}

\* OkinCB24Controller._move_motor: finally block
CB24MoveSendsStop(outcome) == outcome \in {"ok", "BleakError", "ConnectionError", "CancelledError"}

\* OkinCB24Controller._send_continuous_preset: finally block
CB24PresetSendsStop(outcome) == outcome \in {"ok", "BleakError", "ConnectionError", "CancelledError"}

\* cancel_event=asyncio.Event() of the cleanup call
JensenCleanupCancelEvent == "fresh"

SharedCancelEvent == "shared"

CB24CleanupCancelEvent == "fresh"

\* except BleakError: of JensenController._move_with_stop
JensenCleanupSwallows(e) == e = "BleakError"

SwallowsEverything(e) == TRUE

\* except CancelledError: raise / except (BleakError, ConnectionError): of the
\* CB24 cleanup blocks
CB24CleanupSwallows(e) == e # "CancelledError" /\ e \in {"BleakError", "ConnectionError"}

SendsStop(theOp, outcome) ==
    /\ theOp.stop
    /\ IF kind = "jensen" THEN JensenMoveSendsStop(outcome)
       ELSE IF theOp.name = "move" THEN CB24MoveSendsStop(outcome)
       ELSE CB24PresetSendsStop(outcome)

CleanupSwallows(e) ==
    IF kind = "jensen" THEN JensenCleanupSwallows(e) ELSE CB24CleanupSwallows(e)

\* The operation ends: it returns (e = "ok") or raises e.
Finish(e, origin, o, l, ms, sh) ==
    /\ pc' = "done"
    /\ frame' = NoFrame
    /\ exc' = o
    /\ result' = [exc |-> e, origin |-> origin]
    /\ log' = l
    /\ _motor_state' = ms
    /\ shielded' = sh

\* The cleanup call ended with outcome c (as the awaiting task sees it) after
\* the try block ended with outcome o.
CleanupEnds(o, c, l, ms, sh) ==
    LET l1 == [l EXCEPT !.cleanup.out = c]
    IN  IF c = "ok" \/ CleanupSwallows(c)
        THEN Finish(o, "primary", o, l1, ms, sh)
        ELSE Finish(c, "cleanup", o, l1, ms, sh)

StopCall(ev) == [command |-> StopPacket, repeat_count |-> 1, cancel_event |-> ev]

\* finally: of JensenController._move_with_stop, up to the first await
JensenCleanupStart(o, l, ms, sh) ==
    LET ev == JensenCleanupCancelEvent
        e == JensenWriteEntry(ev)
        l1 == [l EXCEPT !.calls = Append(@, StopCall(ev)),
                        !.cleanup = [called |-> TRUE, cancel_event |-> ev,
                                     conn |-> IF connected THEN "yes" ELSE "no",
                                     out |-> "none"]]
    IN  IF e = "write"
        THEN /\ pc' = "writing"
             /\ frame' = [command |-> JENSEN_MOTOR_STOP, repeat_count |-> 1, i |-> 0,
                          cancel_event |-> ev, role |-> "cleanup"]
             /\ exc' = o
             /\ result' = NoResult
             /\ log' = [l1 EXCEPT !.lastWrite = JENSEN_MOTOR_STOP, !.nWrites = @ + 1]
             /\ _motor_state' = ms
             /\ shielded' = sh
        ELSE CleanupEnds(o, IF e = "return" THEN "ok" ELSE e, l1, ms, sh)

MotorStateKeptInFinally(theOp, o, ms) == ms

MotorStateClearedOnSuccessOnly(theOp, o, ms) ==
    IF theOp.name = "move" /\ o = "ok" THEN NoMotorState ELSE ms

\* self._motor_state = {} as the finally block of _move_motor starts, whatever
\* outcome o the try block had (_send_continuous_preset leaves it alone)
MotorStateInFinally(theOp, o, ms) ==
    IF theOp.name = "move" THEN NoMotorState ELSE ms

\* finally: of OkinCB24Controller._move_motor / _send_continuous_preset, up to
\* await asyncio.shield(...): the STOP write becomes a task of its own.
CB24CleanupStart(theOp, o, l, ms, sh) ==
    LET ev == CB24CleanupCancelEvent
    IN  /\ pc' = "shield"
        /\ frame' = NoFrame
        /\ exc' = o
        /\ result' = NoResult
        /\ log' = [l EXCEPT !.calls = Append(@, StopCall(ev)),
                            !.cleanup = [called |-> TRUE, cancel_event |-> ev,
                                         conn |-> "unknown", out |-> "none"]]
        /\ _motor_state' = MotorStateInFinally(theOp, o, ms)
        /\ shielded' = [sh EXCEPT !.own = [state |-> "scheduled", cancel_event |-> ev]]

\* The try block of the operation ended with outcome o.
AfterPrimary(theOp, o, l, ms, sh) ==
    IF ~SendsStop(theOp, o)
    THEN Finish(o, "primary", o, l, ms, sh)
    ELSE IF kind = "jensen"
         THEN JensenCleanupStart(o, l, ms, sh)
         ELSE CB24CleanupStart(theOp, o, l, ms, sh)

\* The operation calls write_command(command, repeat_count, cancel_event) in
\* its try block (or as its only statement).
StartWrite(theOp, command, repeat_count, ev, ms, sh) ==
    LET e == WriteEntry(ev)
        l1 == [EmptyLog EXCEPT !.calls = <<[command |-> command,
                                             repeat_count |-> repeat_count,
                                             cancel_event |-> ev]>>,
                               !.primaryConn = IF connected THEN "yes" ELSE "no"]
    IN  IF e = "write"
        THEN /\ pc' = "writing"
             /\ frame' = [command |-> command, repeat_count |-> repeat_count, i |-> 0,
                          cancel_event |-> ev, role |-> "primary"]
             /\ exc' = "none"
             /\ result' = NoResult
             /\ log' = [l1 EXCEPT !.lastWrite = command, !.nWrites = 1, !.primaryWrites = 1]
             /\ _motor_state' = ms
             /\ shielded' = sh
        ELSE IF e = "return"
             THEN AfterPrimary(theOp, "ok", [l1 EXCEPT !.cancelled = "event"], ms, sh)
             ELSE AfterPrimary(theOp, e, l1, ms, sh)

NoTask == [state |-> "none", cancel_event |-> "none"]

\* A new operation starts: a shielded STOP task of the previous operation that
\* is still running is on its own now.
CanStart ==
    /\ pc \in {"idle", "done"}
    /\ shielded.own = NoTask \/ shielded.stale = NoTask

Orphaned ==
    IF shielded.own = NoTask THEN shielded
    ELSE [own |-> NoTask, stale |-> shielded.own]

(***************************************************************************)
(* Adaptive preset promotion.                                              *)
(***************************************************************************)
\* Length of the history of preset requests kept for the properties.
HistLen == 3

\* The fields _should_promote_presets_to_continuous reads and writes, and its
\* return value (promote).
Tracker ==
    [promote |-> FALSE,
     continuous |-> _continuous_presets,
     adaptive |-> _adaptive_preset_fallback,
     command |-> _last_one_shot_preset_command,
     monotonic |-> _last_one_shot_preset_monotonic,
     count |-> _same_preset_retry_count]

IsQuickRetryOfAnyPreset(command_value, t) ==
    t - _last_one_shot_preset_monotonic <= _ADAPTIVE_PRESET_RETRY_WINDOW_SECONDS

IsQuickRetryAtAnyTime(command_value, t) ==
    _last_one_shot_preset_command = command_value

\* The condition of the retry branch: the same preset again, inside the window.
IsQuickRetry(command_value, t) ==
    /\ _last_one_shot_preset_command = command_value
    /\ t - _last_one_shot_preset_monotonic <= _ADAPTIVE_PRESET_RETRY_WINDOW_SECONDS

PromoteForThisRequestOnly(tr) ==
    [tr EXCEPT !.promote = TRUE, !.adaptive = FALSE, !.count = 0]

PromoteKeepingFallback(tr) ==
    [tr EXCEPT !.promote = TRUE, !.continuous = TRUE, !.count = 0]

\* The promotion: continuous presets on, adaptive fallback off, return True.
Promote(tr) ==
    [tr EXCEPT !.promote = TRUE, !.continuous = TRUE, !.adaptive = FALSE, !.count = 0]

FreshRequestKeepingCount(tr, command_value, t) ==
    [tr EXCEPT !.command = command_value, !.monotonic = t]

\* The last three assignments: a request that is no quick retry restarts the tracker.
FreshRequest(tr, command_value, t) ==
    [tr EXCEPT !.count = 0, !.command = command_value, !.monotonic = t]

\* OkinCB24Controller._should_promote_presets_to_continuous(command_value, _now=t)
_should_promote_presets_to_continuous(command_value, t) ==
    IF ~_adaptive_preset_fallback THEN Tracker
    ELSE IF IsQuickRetry(command_value, t)
    THEN IF _same_preset_retry_count + 1 < _ADAPTIVE_PRESET_PROMOTION_RETRY_COUNT
         THEN [Tracker EXCEPT !.count = @ + 1, !.monotonic = t]
         ELSE Promote(Tracker)
    ELSE FreshRequest(Tracker, command_value, t)

\* `self._continuous_presets or self._should_promote...(command_value)` of
\* _send_preset: the tracker is consulted only on a legacy, one-shot controller.
PresetDecision(command_value, t) ==
    IF _is_new_protocol \/ _continuous_presets THEN Tracker
    ELSE _should_promote_presets_to_continuous(command_value, t)

Remember(h, r) ==
    IF Len(h) < HistLen THEN Append(h, r) ELSE Append(Tail(h), r)

(***************************************************************************)
(* Operations.                                                             *)
(***************************************************************************)
\* OkinCB24Controller._send_preset(command_value), up to its first await
_send_preset(command_value) ==
    /\ CanStart
    /\ kind = "cb24"
    /\ LET d == PresetDecision(command_value, now)
           continuous == ~_is_new_protocol /\ (_continuous_presets \/ d.promote)
           theOp == [name |-> "preset", motor |-> "none", direction |-> "none",
                     command_value |-> command_value, stop |-> continuous]
       IN  /\ op' = theOp
           /\ _continuous_presets' = d.continuous
           /\ _adaptive_preset_fallback' = d.adaptive
           /\ _last_one_shot_preset_command' = d.command
           /\ _last_one_shot_preset_monotonic' = d.monotonic
           /\ _same_preset_retry_count' = d.count
           /\ StartWrite(theOp, _build_preset_command(command_value),
                         IF continuous THEN _PRESET_CONTINUOUS_COUNT ELSE 1,
                         "shared", _motor_state, Orphaned)
    /\ UNCHANGED <<cfgVars, envVars>>

\* A preset request.
PresetStart(command_value) ==
    /\ _send_preset(command_value)
    /\ UNCHANGED histVars

\* A preset request, remembered in the history of requests.
TrackedPresetStart(command_value) ==
    /\ _send_preset(command_value)
    /\ reqs' = Remember(reqs, [command_value |-> command_value, t |-> now,
                               mode |-> IF op'.stop THEN "continuous" ELSE "oneshot",
                               adaptiveBefore |-> _adaptive_preset_fallback])
    /\ everPromoted' = (everPromoted \/ (_adaptive_preset_fallback /\ op'.stop))

\* OkinCB24Controller._move_motor(motor, direction), up to its first await
CB24MoveStart(motor, direction) ==
    /\ kind = "cb24"
    /\ LET ms == [_motor_state EXCEPT ![motor] = IF direction = "stop" THEN "none"
                                                 ELSE direction]
           command == _get_move_command(ms)
           theOp == [name |-> "move", motor |-> motor, direction |-> direction,
                     command_value |-> command, stop |-> TRUE]
       IN  /\ op' = theOp
           /\ IF command # 0
              THEN StartWrite(theOp, _build_motor_command(command), MotorPulseCount,
                              "shared", ms, Orphaned)
              ELSE AfterPrimary(theOp, "ok", EmptyLog, ms, Orphaned)

\* JensenController.move_*_up / move_*_down (_move_with_stop) and move_*_stop,
\* up to the first await
JensenMoveStart(motor, direction) ==
    /\ kind = "jensen"
    /\ LET theOp == [name |-> "move", motor |-> motor, direction |-> direction,
                     command_value |-> 0, stop |-> direction # "stop"]
       IN  /\ op' = theOp
           /\ IF direction # "stop"
              THEN StartWrite(theOp, JensenMoveCommand(motor, direction),
                              JensenMoveRepeatCount, "shared", _motor_state, Orphaned)
              ELSE StartWrite(theOp, JENSEN_MOTOR_STOP, 1, "fresh", _motor_state, Orphaned)

MoveStart(motor, direction) ==
    /\ CanStart
    /\ CB24MoveStart(motor, direction) \/ JensenMoveStart(motor, direction)
    /\ UNCHANGED <<cfgVars, trackerVars, envVars, histVars>>

\* JensenController.preset_flat: one write_command call, no finally block
JensenPresetFlat ==
    /\ CanStart
    /\ kind = "jensen"
    /\ LET theOp == [name |-> "preset", motor |-> "none", direction |-> "none",
                     command_value |-> 0, stop |-> FALSE]
       IN  /\ op' = theOp
           /\ StartWrite(theOp, JENSEN_PRESET_FLAT, JensenPresetRepeatCount,
                         "shared", _motor_state, Orphaned)
    /\ UNCHANGED <<cfgVars, trackerVars, envVars, histVars>>

\* JensenController.preset_memory(memory_num): slot 1 only, any other number
\* is logged and ignored (the operation "preset_memory" ends with no call
\* made; its command_value is the number asked for)
JensenPresetMemory(memory_num) ==
    /\ CanStart
    /\ kind = "jensen"
    /\ IF memory_num = 1
       THEN LET theOp == [name |-> "preset", motor |-> "none", direction |-> "none",
                          command_value |-> memory_num, stop |-> FALSE]
            IN  /\ op' = theOp
                /\ StartWrite(theOp, JENSEN_PRESET_MEMORY_RECALL, JensenPresetRepeatCount,
                              "shared", _motor_state, Orphaned)
       ELSE /\ op' = [name |-> "preset_memory", motor |-> "none", direction |-> "none",
                      command_value |-> memory_num, stop |-> FALSE]
            /\ Finish("ok", "primary", "ok", EmptyLog, _motor_state, Orphaned)
    /\ UNCHANGED <<cfgVars, trackerVars, envVars, histVars>>

PRESET_MEMORY_3 == 65536

\* OkinCB24Controller.preset_memory(memory_num): slots 1 to 3, any other
\* number is logged and ignored
CB24PresetMemory(memory_num) ==
    LET \* commands.get(memory_num); 0 for None
        command == CASE memory_num = 1 -> PRESET_MEMORY_1
                     [] memory_num = 2 -> PRESET_MEMORY_2
                     [] memory_num = 3 -> PRESET_MEMORY_3
                     [] OTHER -> 0
    IN  IF command # 0
    THEN PresetStart(command)
    ELSE /\ CanStart
         /\ kind = "cb24"
         /\ op' = [name |-> "preset_memory", motor |-> "none", direction |-> "none",
                   command_value |-> memory_num, stop |-> FALSE]
         /\ Finish("ok", "primary", "ok", EmptyLog, _motor_state, Orphaned)
         /\ UNCHANGED <<cfgVars, trackerVars, envVars, histVars>>

\* stop_all of both controllers
StopAll ==
    /\ CanStart
    /\ LET theOp == [name |-> "stop_all", motor |-> "none", direction |-> "none",
                     command_value |-> 0, stop |-> FALSE]
       IN  /\ op' = theOp
           /\ StartWrite(theOp, StopPacket, 1, "fresh",
                         IF kind = "cb24" THEN NoMotorState ELSE _motor_state, Orphaned)
    /\ UNCHANGED <<cfgVars, trackerVars, envVars, histVars>>

(***************************************************************************)
(* The task resumes at an await.                                           *)
(***************************************************************************)
\* await client.write_gatt_char(...) returns
WriteDone ==
    /\ pc = "writing"
    /\ connected
    /\ IF frame.role = "cleanup"
       THEN CleanupEnds(exc, "ok", log, _motor_state, shielded)
       ELSE IF frame.i < frame.repeat_count - 1
            THEN /\ pc' = "sleeping"
                 /\ UNCHANGED <<frame, exc, result, log, _motor_state, shielded>>
            ELSE AfterPrimary(op, "ok", log, _motor_state, shielded)
    /\ UNCHANGED <<cfgVars, trackerVars, envVars, histVars, op>>

\* await client.write_gatt_char(...) raises BleakError
WriteFail ==
    /\ pc = "writing"
    /\ IF frame.role = "cleanup"
       THEN CleanupEnds(exc, "BleakError", log, _motor_state, shielded)
       ELSE AfterPrimary(op, "BleakError", log, _motor_state, shielded)
    /\ UNCHANGED <<cfgVars, trackerVars, envVars, histVars, op>>

\* await asyncio.sleep(repeat_delay_ms / 1000) returns: the next loop iteration
SleepDone ==
    /\ pc = "sleeping"
    /\ IF NextRepeat(frame.cancel_event) = "write"
       THEN /\ pc' = "writing"
            /\ frame' = [frame EXCEPT !.i = @ + 1]
            /\ log' = [log EXCEPT !.lastWrite = frame.command, !.nWrites = @ + 1,
                                  !.primaryWrites = @ + 1]
            /\ UNCHANGED <<exc, result, _motor_state, shielded>>
       ELSE AfterPrimary(op, "ok", [log EXCEPT !.cancelled = "event"],
                         _motor_state, shielded)
    /\ UNCHANGED <<cfgVars, trackerVars, envVars, histVars, op>>

\* task.cancel(): CancelledError is thrown into the coroutine at its await
TaskCancel ==
    /\ pc \in {"writing", "sleeping", "shield"}
    /\ IF pc = "shield" \/ frame.role = "cleanup"
       THEN CleanupEnds(exc, "CancelledError", log, _motor_state, shielded)
       ELSE AfterPrimary(op, "CancelledError", [log EXCEPT !.cancelled = "task"],
                         _motor_state, shielded)
    /\ UNCHANGED <<cfgVars, trackerVars, envVars, histVars, op>>

(***************************************************************************)
(* The shielded STOP task of the CB24 controller.                          *)
(***************************************************************************)
\* The shielded task in slot s ends with outcome c; the operation that awaits
\* it (if it still does) resumes.
InnerEnds(s, c, l) ==
    LET sh == [shielded EXCEPT ![s] = NoTask]
    IN  IF s = "own" /\ pc = "shield"
        THEN CleanupEnds(exc, c, l, _motor_state, sh)
        ELSE /\ shielded' = sh
             /\ log' = l
             /\ UNCHANGED <<pc, frame, exc, result, _motor_state>>

\* The shielded task starts: write_command(STOP, cancel_event=Event())
InnerRun(s) ==
    /\ shielded[s].state = "scheduled"
    /\ LET e == BaseWriteEntry(shielded[s].cancel_event)
           l == IF s = "own"
                THEN [log EXCEPT !.cleanup.conn = IF connected THEN "yes" ELSE "no"]
                ELSE log
       IN  IF e = "write"
           THEN /\ shielded' = [shielded EXCEPT ![s].state = "writing"]
                /\ log' = IF s = "own"
                          THEN [l EXCEPT !.lastWrite = _build_stop_command,
                                         !.nWrites = @ + 1]
                          ELSE l
                /\ UNCHANGED <<pc, frame, exc, result, _motor_state>>
           ELSE InnerEnds(s, IF e = "return" THEN "ok" ELSE e, l)
    /\ UNCHANGED <<cfgVars, trackerVars, envVars, histVars, op>>

\* The shielded task's write returns
InnerWriteDone(s) ==
    /\ shielded[s].state = "writing"
    /\ connected
    /\ InnerEnds(s, "ok", log)
    /\ UNCHANGED <<cfgVars, trackerVars, envVars, histVars, op>>

\* The shielded task's write raises BleakError
InnerWriteFail(s) ==
    /\ shielded[s].state = "writing"
    /\ InnerEnds(s, "BleakError", log)
    /\ UNCHANGED <<cfgVars, trackerVars, envVars, histVars, op>>

(***************************************************************************)
(* Environment: the BLE link, the coordinator, the clock.                  *)
(***************************************************************************)
Disconnect ==
    /\ connected
    /\ connected' = FALSE
    /\ UNCHANGED <<cfgVars, trackerVars, _motor_state, now, cancel_command,
                   taskVars, log, histVars>>

Connect ==
    /\ ~connected
    /\ connected' = TRUE
    /\ UNCHANGED <<cfgVars, trackerVars, _motor_state, now, cancel_command,
                   taskVars, log, histVars>>

\* coordinator.cancel_command.set()
SetCancel ==
    /\ ~cancel_command
    /\ cancel_command' = TRUE
    /\ UNCHANGED <<cfgVars, trackerVars, _motor_state, now, connected,
                   taskVars, log, histVars>>

\* coordinator.cancel_command.clear()
ClearCancel ==
    /\ cancel_command
    /\ cancel_command' = FALSE
    /\ UNCHANGED <<cfgVars, trackerVars, _motor_state, now, connected,
                   taskVars, log, histVars>>

\* Time passes between two operations (the clock is read only by
\* _should_promote_presets_to_continuous, as _send_preset starts).
Tick(d) ==
    /\ pc \in {"idle", "done"}
    /\ now + d <= MaxNow
    /\ now' = now + d
    /\ UNCHANGED <<cfgVars, trackerVars, _motor_state, connected, cancel_command,
                   taskVars, log, histVars>>

(***************************************************************************)
(* Controller factory: create_controller for the bed type okin_cb24.       *)
(***************************************************************************)
\* The variants a user can select for the bed type.
OkinCB24VariantNames == {"old", "new", "cb24", "cb27", "cb24_ab", "cb1221", "dacheng", "cb27new"}
\* protocol_variant of create_controller: None or a variant
ExplicitVariants == {"None"} \cup OkinCB24VariantNames
\* device_name: a name with the CB27New signature and one without
DeviceNames == {"smartbed1234567890", "SmartBed-Not18"}
CB27NewDeviceNames == {"smartbed1234567890"}

\* manufacturer_data[MANUFACTURER_ID_OKIN], as bytes; <<>> is "no entry"
PAYLOAD_AB == <<65, 66, 8, 1, 2>>
PAYLOAD_OK == <<79, 75, 2, 4>>
PAYLOAD_DOT_1 == <<68, 79, 84, 1, 2>>
PAYLOAD_DOT_2 == <<68, 79, 84, 2, 1>>
PAYLOAD_DOT_3 == <<68, 79, 84, 3, 2>>
PAYLOAD_UNKNOWN == <<0, 0, 0, 0>>
ManufacturerPayloads == {<<>>, PAYLOAD_AB, PAYLOAD_OK, PAYLOAD_DOT_1, PAYLOAD_DOT_2,
                         PAYLOAD_DOT_3, PAYLOAD_UNKNOWN}

\* Step 2 of the resolution: the variant a payload marker stands for, or "None"
VariantFromManufacturerData(payload) ==
    IF payload = PAYLOAD_AB THEN "cb24_ab"
    ELSE IF payload = PAYLOAD_OK THEN "cb27"
    ELSE IF payload = PAYLOAD_DOT_1 THEN "dacheng"
    ELSE IF payload = PAYLOAD_DOT_2 THEN "cb1221"
    ELSE IF payload = PAYLOAD_DOT_3 THEN "cb24"
    ELSE "None"

\* Step 3: the variant a device name stands for, or "None"
VariantFromDeviceName(device_name) ==
    IF device_name \in CB27NewDeviceNames THEN "cb27new" ELSE "None"

\* Step 4: the default variant of the bed type
DefaultVariant == "cb24"

ResolveVariantMarkerFirst(args) ==
    IF VariantFromManufacturerData(args.manufacturer_data) # "None"
    THEN VariantFromManufacturerData(args.manufacturer_data)
    ELSE IF args.protocol_variant # "None" THEN args.protocol_variant
    ELSE IF VariantFromDeviceName(args.device_name) # "None"
    THEN VariantFromDeviceName(args.device_name)
    ELSE DefaultVariant

ResolveVariantNameFirst(args) ==
    IF args.protocol_variant # "None" THEN args.protocol_variant
    ELSE IF VariantFromDeviceName(args.device_name) # "None"
    THEN VariantFromDeviceName(args.device_name)
    ELSE IF VariantFromManufacturerData(args.manufacturer_data) # "None"
    THEN VariantFromManufacturerData(args.manufacturer_data)
    ELSE DefaultVariant

\* The resolution: explicit variant, then payload marker, then name, then default
ResolveVariant(args) ==
    IF args.protocol_variant # "None" THEN args.protocol_variant
    ELSE IF VariantFromManufacturerData(args.manufacturer_data) # "None"
    THEN VariantFromManufacturerData(args.manufacturer_data)
    ELSE IF VariantFromDeviceName(args.device_name) # "None"
    THEN VariantFromDeviceName(args.device_name)
    ELSE DefaultVariant

\* adaptive_preset_fallback as the factory passes it: on for an auto-detected variant
FactoryAdaptiveFlag(args) == args.protocol_variant = "None"

\* create_controller(bed_type=okin_cb24, protocol_variant, device_name,
\* manufacturer_data): OkinCB24Controller(coordinator, protocol_variant=...,
\* adaptive_preset_fallback=...)
create_controller ==
    /\ kind = "none"
    /\ LET variant == ResolveVariant(factory_args)
           flag == FactoryAdaptiveFlag(factory_args)
       IN  /\ kind' = "cb24"
           /\ ctor_args' = [protocol_variant |-> variant, adaptive_preset_fallback |-> flag]
           /\ _protocol_variant' = variant
           /\ _is_new_protocol' = (variant \in _NEW_PROTOCOL_VARIANTS)
           /\ _continuous_presets' = CB24InitContinuous(variant)
           /\ _adaptive_preset_fallback' = CB24InitAdaptive(variant, flag)
    /\ UNCHANGED <<encVars, featVars, callVars, factory_args, _bed_selection,
                   _last_one_shot_preset_command,
                   _last_one_shot_preset_monotonic, _same_preset_retry_count,
                   _motor_state, envVars, taskVars, log, histVars>>

(***************************************************************************)
(* Packet encoders of the sequence-numbered and the checksummed families.  *)
(***************************************************************************)
\* Number of packets a Remacro controller builds in the model.
MaxPackets == 300

\* RemacroCommands
CPID_CTRL == 1
REMACRO_STOP == 0
REMACRO_M1_UP == 257
REMACRO_HEAT_M3 == 28675
RemacroCommandValues == {REMACRO_STOP, REMACRO_M1_UP, REMACRO_HEAT_M3}
\* parameter of _build_packet: the default and a value with four different bytes
RemacroParameters == {0, 305419896}

\* Byte k (0 = least significant) of a non-negative integer
ByteOf(value, k) == (value \div (256 ^ k)) % 256

NextSerialModulo256(serial) == (serial + 1) % 256

\* RemacroController._next_serial: the serial after `serial` (255 is followed by 1)
NextSerial(serial) == (serial % 255) + 1

\* RemacroController._build_packet(command, parameter): serial, CPID_CTRL, the
\* command and the parameter in little-endian order
RemacroPacket(serial, command, parameter) ==
    <<serial, CPID_CTRL, ByteOf(command, 0), ByteOf(command, 1),
      ByteOf(parameter, 0), ByteOf(parameter, 1), ByteOf(parameter, 2), ByteOf(parameter, 3)>>

Remacro_build_packet(command, parameter) ==
    /\ kind = "remacro"
    /\ n_packets < MaxPackets
    /\ packet' = RemacroPacket(_serial, command, parameter)
    /\ _serial' = NextSerial(_serial)
    /\ n_packets' = n_packets + 1
    /\ UNCHANGED <<kind, _initialized, factory_args, ctor_args, _bed_selection, _protocol_variant,
                   _is_new_protocol, trackerVars, _motor_state, envVars, taskVars, log,
                   histVars, featVars, callVars>>

RECURSIVE SumBytes(_)
\* sum(data)
SumBytes(data) == IF data = <<>> THEN 0 ELSE Head(data) + SumBytes(Tail(data))

MaskedSumChecksum(data) == SumBytes(data) % 256

\* (~sum(data)) & 0xFF: the low eight bits of the one's complement of the sum
\* (~s is -s - 1 in two's complement)
InvertedSumChecksum(data) == (0 - SumBytes(data) - 1) % 256

\* The command values the checksummed families are given: STOP, every single
\* bit below bit 31, and values with several bits set (up to 0x7FFFFFFF, the
\* largest integer of the model checker).
FlagCommandValues == {0, 5, 10, 255, 65535, 2147483647} \cup {2 ^ k : k \in 0..30}

LittleEndian4(value) == <<ByteOf(value, 0), ByteOf(value, 1), ByteOf(value, 2), ByteOf(value, 3)>>

\* MaloufController._build_command (LEGACY_OKIN): E6 FE 16, command, 00, checksum
MaloufLegacyPacket(command) ==
    LET data == <<230, 254, 22>> \o LittleEndian4(command) \o <<0>>
    IN  Append(data, InvertedSumChecksum(data))

RondureVariants == {"both", "side_a", "side_b"}

\* RondureController._build_packet: E5 FE 16, command, checksum for both sides;
\* E6 FE 16, command, side, checksum for one side
RondurePacket(variant, command) ==
    LET data == IF variant = "both"
                THEN <<229, 254, 22>> \o LittleEndian4(command)
                ELSE <<230, 254, 22>> \o LittleEndian4(command)
                     \o <<IF variant = "side_a" THEN 1 ELSE 2>>
    IN  Append(data, InvertedSumChecksum(data))

\* SleepysBox15Commands: motor commands, and bytes 4 and 6 of the presets
Box15MotorCommands == {0, 1, 2, 4, 8, 16, 32}
Box15PresetBytes == {<<0, 16>>, <<32, 0>>}

\* SleepysController._build_motor_command (BOX15): E6 FE 2C, command, 00 00 00 00, checksum
Box15MotorPacket(command) ==
    LET data == <<230, 254, 44, command, 0, 0, 0, 0>>
    IN  Append(data, InvertedSumChecksum(data))

\* SleepysController._build_preset_command (BOX15): E6 FE 2C, 00, byte4, 00, byte6, 00, checksum
Box15PresetPacket(byte4, byte6) ==
    LET data == <<230, 254, 44, 0, byte4, 0, byte6, 0>>
    IN  Append(data, InvertedSumChecksum(data))

\* The controller builds a packet.
Built(p) ==
    /\ packet' = p
    /\ n_packets' = 1
    /\ UNCHANGED <<kind, _serial, _initialized, factory_args, ctor_args, _bed_selection, _protocol_variant,
                   _is_new_protocol, trackerVars, _motor_state, envVars, taskVars, log,
                   histVars, featVars, callVars>>

Malouf_build_command(command) ==
    /\ kind = "malouf_legacy"
    /\ Built(MaloufLegacyPacket(command))

Rondure_build_packet(command) ==
    /\ kind = "rondure"
    /\ Built(RondurePacket(_protocol_variant, command))

Box15_build_motor_command(command) ==
    /\ kind = "sleepys_box15"
    /\ Built(Box15MotorPacket(command))

Box15_build_preset_command(bytes) ==
    /\ kind = "sleepys_box15"
    /\ Built(Box15PresetPacket(bytes[1], bytes[2]))

(***************************************************************************)
(* The integer-command encoders of the 32-bit families, called directly.   *)
(***************************************************************************)
\* The command values an encoder is called with: the values of the families
\* (every bit below bit 31, several bits) and negative integers.
EncoderCommandValues == FlagCommandValues \cup {-1, -256, -65536, -2147483647}

\* bed_selection: default, bed A, bed B, and the largest byte
BedSelections == {0, 170, 187, 255}

\* A caller calls an encoder, which returns `out` or raises ValueError.
EncoderCall(fn, command_value, bed_selection, out) ==
    /\ kind = "encoders"
    /\ call' = [method |-> fn, arg |-> <<command_value, bed_selection>>,
                raised |-> IF out = ValueError THEN "ValueError" ELSE "none",
                seq |-> 1 - call.seq]
    /\ packet' = IF out = ValueError THEN NoPacket ELSE out
    /\ n_packets' = 1
    /\ UNCHANGED <<kind, _serial, _initialized, factory_args, ctor_args, _bed_selection, _protocol_variant,
                   _is_new_protocol, trackerVars, _motor_state, envVars, taskVars, log,
                   histVars, featVars, writes, updates>>

Call_build_okin_command(command_value) ==
    EncoderCall("build_okin_command", command_value, 0, build_okin_command(command_value))

Call_build_cb24_command(command_value, bed_selection) ==
    EncoderCall("build_cb24_command", command_value, bed_selection,
                build_cb24_command(command_value, bed_selection))

Call_build_cbnew_motor_command(command_value) ==
    EncoderCall("build_cbnew_motor_command", command_value, 0,
                build_cbnew_motor_command(command_value))

(***************************************************************************)
(* Vibradorm: programming a memory slot.                                   *)
(***************************************************************************)
\* VibradormCommands: STOP, STORE and MEMORY_1 .. MEMORY_6
VibradormCommands ==
    [STOP |-> 255, STORE |-> 13, MEMORY |-> <<14, 15, 12, 26, 27, 28>>]

StoreToggleAlwaysClear(i) == 0 * i

\* The toggle bit of the i-th STORE write of program_memory (i = 1 .. 4)
StoreToggle(i) == (i - 1) % 2

\* The packets program_memory(memory_num) writes: STORE four times and the
\* slot command, each behind its toggle byte (0x80 when the bit is set), and
\* STOP four times as a one-byte motor command
ProgramMemoryWrites(memory_num) ==
    [i \in 1..4 |-> <<128 * StoreToggle(i), VibradormCommands.STORE>>]
    \o <<<<0, VibradormCommands.MEMORY[memory_num]>>>>
    \o [i \in 1..4 |-> <<VibradormCommands.STOP>>]

\* VibradormController.program_memory(memory_num), up to its first write
Vibradorm_program_memory(memory_num) ==
    /\ kind = "vibradorm"
    /\ pc \in {"idle", "done"}
    /\ pc' = "writing"
    /\ call' = [method |-> "program_memory", arg |-> <<memory_num>>, raised |-> "none",
                seq |-> 1 - call.seq]
    /\ writes' = <<ProgramMemoryWrites(memory_num)[1]>>
    /\ UNCHANGED <<kind, factory_args, ctor_args, _bed_selection, _protocol_variant,
                   _is_new_protocol, encVars, featVars, updates, trackerVars, _motor_state,
                   envVars, op, frame, exc, shielded, result, log, histVars>>

\* A write of program_memory returns: the next packet is written, or the
\* method returns
VibradormWriteDone ==
    /\ kind = "vibradorm"
    /\ pc = "writing"
    /\ LET all == ProgramMemoryWrites(call.arg[1])
       IN  IF Len(writes) < Len(all)
           THEN /\ writes' = Append(writes, all[Len(writes) + 1])
                /\ pc' = "writing"
           ELSE /\ writes' = writes
                /\ pc' = "done"
    /\ UNCHANGED <<kind, factory_args, ctor_args, _bed_selection, _protocol_variant,
                   _is_new_protocol, encVars, featVars, call, updates, trackerVars,
                   _motor_state, envVars, op, frame, exc, shielded, result, log, histVars>>

(***************************************************************************)
(* Okin Nordic: the initialisation sequence before the first command.      *)
(***************************************************************************)
\* Number of packets an Okin Nordic controller writes in the model.
MaxNordicWrites == 8

\* Commands of OkinNordicCommands that callers pass to write_command
NordicCommands == {"HEAD_UP", "FOOT_UP", "LIGHT_OFF_HOLD"}

NordicWritesInitEveryTime(initialized, command, repeat_count) ==
    <<"INIT_1", "INIT_2">> \o [i \in 1..repeat_count |-> command]

\* The packets write_command(command, repeat_count) writes: INIT_1 and INIT_2
\* while the controller is not initialised, then the command repeat_count times
NordicWrites(initialized, command, repeat_count) ==
    (IF initialized THEN <<>> ELSE <<"INIT_1", "INIT_2">>)
    \o [i \in 1..repeat_count |-> command]

\* OkinNordicController.write_command(command, repeat_count) on a connected
\* client whose writes succeed; here `writes` is every packet written since
\* the controller was constructed
Nordic_write_command(command, repeat_count) ==
    /\ kind = "okin_nordic"
    /\ connected
    /\ Len(writes) + 2 + repeat_count <= MaxNordicWrites
    /\ call' = [method |-> "write_command", arg |-> <<command, repeat_count>>,
                raised |-> "none", seq |-> 1 - call.seq]
    /\ writes' = writes \o NordicWrites(_initialized, command, repeat_count)
    /\ _initialized' = TRUE
    /\ UNCHANGED <<kind, factory_args, ctor_args, _bed_selection, _protocol_variant,
                   _is_new_protocol, _serial, packet, n_packets, featVars, updates,
                   trackerVars, _motor_state, envVars, taskVars, log, histVars>>

(***************************************************************************)
(* OkinMotorStateMachine: the motor state shared by the Okin controllers.  *)
(***************************************************************************)
OkinMotors == {"head", "feet", "tilt", "lumbar"}

\* OkinCommandConstants: the motor bits
OkinCommandConstants ==
    [MOTOR_HEAD_UP |-> 1, MOTOR_HEAD_DOWN |-> 2, MOTOR_FEET_UP |-> 4, MOTOR_FEET_DOWN |-> 8,
     MOTOR_TILT_UP |-> 16, MOTOR_TILT_DOWN |-> 32, MOTOR_LUMBAR_UP |-> 64,
     MOTOR_LUMBAR_DOWN |-> 128]

\* state.get(motor): "up" is True, "down" is False, "none" is None or no entry
StateGet(state, motor) == IF motor \in DOMAIN state THEN state[motor] ELSE "none"

GetCombinedCommandWithoutElif(state) ==
    LET bits(motor, up, down) ==
            (IF StateGet(state, motor) # "none" THEN up ELSE 0)
            + (IF StateGet(state, motor) = "down" THEN down ELSE 0)
    IN  bits("head", OkinCommandConstants.MOTOR_HEAD_UP, OkinCommandConstants.MOTOR_HEAD_DOWN)
        + bits("feet", OkinCommandConstants.MOTOR_FEET_UP, OkinCommandConstants.MOTOR_FEET_DOWN)
        + bits("tilt", OkinCommandConstants.MOTOR_TILT_UP, OkinCommandConstants.MOTOR_TILT_DOWN)
        + bits("lumbar", OkinCommandConstants.MOTOR_LUMBAR_UP,
               OkinCommandConstants.MOTOR_LUMBAR_DOWN)

\* OkinMotorStateMachine.get_combined_command (the bits are distinct, so
\* command |= bit adds the bit)
get_combined_command(state) ==
    LET bits(motor, up, down) ==
            IF StateGet(state, motor) = "up" THEN up
            ELSE IF StateGet(state, motor) = "down" THEN down
            ELSE 0
    IN  bits("head", OkinCommandConstants.MOTOR_HEAD_UP, OkinCommandConstants.MOTOR_HEAD_DOWN)
        + bits("feet", OkinCommandConstants.MOTOR_FEET_UP, OkinCommandConstants.MOTOR_FEET_DOWN)
        + bits("tilt", OkinCommandConstants.MOTOR_TILT_UP, OkinCommandConstants.MOTOR_TILT_DOWN)
        + bits("lumbar", OkinCommandConstants.MOTOR_LUMBAR_UP,
               OkinCommandConstants.MOTOR_LUMBAR_DOWN)

\* OkinMotorStateMachine.set_motor(motor, direction)
set_motor(motor, direction) ==
    /\ kind = "okin_motor_state"
    /\ _motor_state' = [m \in DOMAIN _motor_state \cup {motor} |->
                           IF m = motor THEN direction ELSE _motor_state[m]]
    /\ UNCHANGED <<cfgVars, trackerVars, envVars, taskVars, log, histVars>>

\* OkinMotorStateMachine.clear()
clear ==
    /\ kind = "okin_motor_state"
    /\ _motor_state' = NoMotorState
    /\ UNCHANGED <<cfgVars, trackerVars, envVars, taskVars, log, histVars>>

(***************************************************************************)
(* Capabilities, and the Jensen controller's feature detection and gated   *)
(* methods.  Each handler is one step: its guards are evaluated before its *)
(* first await and its assignments follow its last await, so the outcome   *)
(* of the awaited BLE calls is an input of the step.                       *)
(***************************************************************************)
\* JensenFeatureFlags
JensenFeatureFlags_MASSAGE_HEAD == 1
JensenFeatureFlags_MASSAGE_FOOT == 2
JensenFeatureFlags_LIGHT == 4
JensenFeatureFlags_FAN == 16
JensenFeatureFlags_LIGHT_UNDERBED == 64

\* JensenCommands: the configuration, light and massage packets
JensenCommands ==
    [CONFIG_READ_ALL |-> <<10, 0, 0, 0, 0, 0>>,
     MASSAGE_OFF |-> <<18, 0, 0, 0, 0, 0>>,
     MASSAGE_HEAD_ON |-> <<18, 5, 0, 0, 0, 0>>,
     MASSAGE_FOOT_ON |-> <<18, 0, 5, 0, 0, 0>>,
     MASSAGE_BOTH_ON |-> <<18, 5, 5, 0, 0, 0>>,
     LIGHT_MAIN_ON |-> <<19, 0, 255, 0, 0, 80>>,
     LIGHT_MAIN_OFF |-> <<19, 0, 0, 0, 0, 80>>,
     LIGHT_UNDERBED_ON |-> <<19, 2, 255, 0, 0, 80>>,
     LIGHT_UNDERBED_OFF |-> <<19, 2, 0, 0, 0, 80>>]

\* bool(features & flag), for a flag of one bit
HasFlag(features, flag) == (features \div flag) % 2 = 1

\* Capability properties of the two controllers
supports_lights ==
    IF kind = "jensen" THEN HasFlag(_features, JensenFeatureFlags_LIGHT) ELSE TRUE

UnderBedLightsFromMainLightFlag == HasFlag(_features, JensenFeatureFlags_LIGHT)

supports_under_bed_lights == HasFlag(_features, JensenFeatureFlags_LIGHT_UNDERBED)

has_massage_head == HasFlag(_features, JensenFeatureFlags_MASSAGE_HEAD)

has_massage_foot == HasFlag(_features, JensenFeatureFlags_MASSAGE_FOOT)

has_massage == has_massage_head \/ has_massage_foot

has_fan == HasFlag(_features, JensenFeatureFlags_FAN)

supports_memory_presets == TRUE

MemorySlotCountNotOverridden == IF kind = "jensen" THEN 0 ELSE 3

MemorySlotCountOfTwo == IF kind = "jensen" THEN 1 ELSE 2

memory_slot_count == IF kind = "jensen" THEN 1 ELSE 3

\* JensenController does not define these two properties: it has the value
\* `inherited` that BedController gives them.
supports_discrete_light_control(inherited) ==
    IF kind = "jensen" THEN inherited ELSE _is_new_protocol

supports_massage(inherited) == IF kind = "jensen" THEN inherited ELSE TRUE

OverriddenWithoutDiscreteLights ==
    IF kind = "jensen"
    THEN {"lights_toggle", "massage_off", "massage_head_toggle", "massage_foot_toggle",
          "massage_toggle"}
    ELSE {"lights_toggle", "massage_off", "massage_head_toggle", "massage_foot_toggle",
          "massage_toggle", "massage_mode_step"}

\* The feature methods the controller's class defines itself
Overridden ==
    IF kind = "jensen"
    THEN {"lights_on", "lights_off", "lights_toggle", "underbed_lights_on",
          "underbed_lights_off", "underbed_lights_toggle", "massage_off",
          "massage_head_toggle", "massage_foot_toggle", "massage_toggle"}
    ELSE {"lights_toggle", "lights_on", "lights_off", "massage_head_up",
          "massage_head_down", "massage_head_toggle", "massage_foot_up",
          "massage_foot_down", "massage_foot_toggle", "massage_toggle",
          "massage_intensity_up", "massage_intensity_down", "massage_off",
          "massage_mode_step"}

\* The first notification that arrives while query_config waits
JensenNotifications ==
    {<<10, 0, 69>>, <<10, 0, 4>>, <<10, 0, 3, 0, 0, 0>>, <<10, 0, 0>>, <<10, 0>>, <<>>,
     <<16, 255, 5>>}

\* How the awaits of query_config end: start_notify, write_gatt_char or
\* stop_notify raises BleakError, wait_for times out, a notification arrives
\* in time, or the task is cancelled at an await.
JensenQueryOutcomes ==
    {"start_notify_error", "write_error", "timeout", "response", "stop_notify_error",
     "cancelled"}

ConfigLoadedOnSuccessOnly(path) == path \in {"timeout", "response"}

\* _config_loaded after query_config took `path` with the flags unresolved
ConfigLoadedAfter(path) ==
    path \in {"timeout", "response", "start_notify_error", "write_error",
              "stop_notify_error"}

\* _features after query_config took `path` and received `data`; the timeout
\* fallback sets the two massage flags and the two light flags
FeaturesAfter(path, data) ==
    IF path = "timeout"
    THEN JensenFeatureFlags_MASSAGE_HEAD + JensenFeatureFlags_MASSAGE_FOOT
         + JensenFeatureFlags_LIGHT + JensenFeatureFlags_LIGHT_UNDERBED
    ELSE IF path = "response" THEN (IF Len(data) >= 3 THEN data[3] ELSE 0)
    ELSE _features

\* Whether the subscription is open when query_config has taken `path`: the
\* set of possible values.  start_notify opens it; stop_notify is called on the
\* response path only (there it closes it, or raises); a task cancelled at an
\* await may or may not have opened it.
NotifyingAfter(path) ==
    CASE path \in {"loaded", "not_connected", "start_notify_error"} -> {notifying}
      [] path \in {"write_error", "timeout"} -> {TRUE}
      [] path \in {"response", "stop_notify_error"} -> {FALSE}
      [] path = "cancelled" -> BOOLEAN

\* The way query_config takes: it returns at once when the flags are resolved
\* or the client is not connected
QueryPath(outcome) ==
    IF _config_loaded THEN "loaded"
    ELSE IF ~connected THEN "not_connected"
    ELSE outcome

\* A handler of the Jensen controller returns or raises.
JensenHandlerEnds(method, arg, raised, w, lights, underbed, head, foot) ==
    /\ kind = "jensen"
    /\ pc = "idle"
    /\ call' = [method |-> method, arg |-> arg, raised |-> raised, seq |-> 1 - call.seq]
    /\ writes' = w
    /\ _lights_on' = lights
    /\ _underbed_lights_on' = underbed
    /\ _massage_head_on' = head
    /\ _massage_foot_on' = foot

\* JensenController.query_config; call.arg records the way it took and the
\* notification it received
query_config(outcome, data) ==
    LET path == QueryPath(outcome)
    IN  /\ JensenHandlerEnds("query_config", <<path, data>>,
                             IF path = "cancelled" THEN "CancelledError" ELSE "none",
                             IF path \in {"loaded", "not_connected", "start_notify_error",
                                          "write_error"}
                             THEN <<>> ELSE <<JensenCommands.CONFIG_READ_ALL>>,
                             _lights_on, _underbed_lights_on, _massage_head_on,
                             _massage_foot_on)
        /\ _config_loaded' = (_config_loaded \/ ConfigLoadedAfter(path))
        /\ _features' = FeaturesAfter(path, data)
        /\ notifying' \in NotifyingAfter(path)
        /\ UNCHANGED <<kind, factory_args, ctor_args, _bed_selection, _protocol_variant,
                       _is_new_protocol, encVars, massageVars, updates, trackerVars,
                       _motor_state, envVars, taskVars, log, histVars>>

\* A gated or ungated method that calls write_command(command) once and then
\* assigns the on/off state; link is how the one BLE write ends.
JensenWriteThen(method, command, link, lights, underbed, head, foot) ==
    LET e == JensenWriteEntry("shared")
    IN  /\ IF e = "ConnectionError"
           THEN JensenHandlerEnds(method, <<>>, "ConnectionError", <<>>, _lights_on,
                                  _underbed_lights_on, _massage_head_on, _massage_foot_on)
           ELSE IF e = "return"
           THEN JensenHandlerEnds(method, <<>>, "none", <<>>, lights, underbed, head, foot)
           ELSE IF link = "ok"
           THEN JensenHandlerEnds(method, <<>>, "none", <<command>>, lights, underbed,
                                  head, foot)
           ELSE JensenHandlerEnds(method, <<>>, link, <<>>, _lights_on,
                                  _underbed_lights_on, _massage_head_on, _massage_foot_on)
        /\ UNCHANGED <<kind, factory_args, ctor_args, _bed_selection, _protocol_variant,
                       _is_new_protocol, encVars, _features, _config_loaded, massageVars,
                       notifying, updates, trackerVars, _motor_state, envVars, taskVars,
                       log, histVars>>

\* raise NotImplementedError(...)
JensenNotImplemented(method) ==
    /\ JensenHandlerEnds(method, <<>>, "NotImplementedError", <<>>, _lights_on,
                         _underbed_lights_on, _massage_head_on, _massage_foot_on)
    /\ UNCHANGED <<kind, factory_args, ctor_args, _bed_selection, _protocol_variant,
                   _is_new_protocol, encVars, _features, _config_loaded, massageVars,
                   notifying, updates, trackerVars, _motor_state, envVars, taskVars, log,
                   histVars>>

LinkOutcomes == {"ok", "BleakError"}

\* lights_on (on = TRUE) and lights_off (on = FALSE); lights_toggle calls the
\* one or the other (on = ~_lights_on)
JensenLights(method, on, link) ==
    IF ~supports_lights THEN JensenNotImplemented(method)
    ELSE JensenWriteThen(method,
                         IF on THEN JensenCommands.LIGHT_MAIN_ON
                         ELSE JensenCommands.LIGHT_MAIN_OFF,
                         link, on, _underbed_lights_on, _massage_head_on, _massage_foot_on)

\* underbed_lights_on, underbed_lights_off and underbed_lights_toggle, likewise
JensenUnderbedLights(method, on, link) ==
    IF ~supports_under_bed_lights THEN JensenNotImplemented(method)
    ELSE JensenWriteThen(method,
                         IF on THEN JensenCommands.LIGHT_UNDERBED_ON
                         ELSE JensenCommands.LIGHT_UNDERBED_OFF,
                         link, _lights_on, on, _massage_head_on, _massage_foot_on)

\* massage_off, also as massage_toggle calls it
JensenMassageOff(method, link) ==
    JensenWriteThen(method, JensenCommands.MASSAGE_OFF, link, _lights_on,
                    _underbed_lights_on, FALSE, FALSE)

JensenMassageCommandNeverBoth(head, foot) ==
    IF head THEN JensenCommands.MASSAGE_HEAD_ON
    ELSE IF foot THEN JensenCommands.MASSAGE_FOOT_ON
    ELSE JensenCommands.MASSAGE_OFF

\* The massage packet for the motors that are to run
JensenMassageCommand(head, foot) ==
    IF head /\ foot THEN JensenCommands.MASSAGE_BOTH_ON
    ELSE IF head THEN JensenCommands.MASSAGE_HEAD_ON
    ELSE IF foot THEN JensenCommands.MASSAGE_FOOT_ON
    ELSE JensenCommands.MASSAGE_OFF

massage_head_toggle(link) ==
    IF ~has_massage_head THEN JensenNotImplemented("massage_head_toggle")
    ELSE JensenWriteThen("massage_head_toggle",
                         JensenMassageCommand(~_massage_head_on, _massage_foot_on), link,
                         _lights_on, _underbed_lights_on, ~_massage_head_on,
                         _massage_foot_on)

massage_foot_toggle(link) ==
    IF ~has_massage_foot THEN JensenNotImplemented("massage_foot_toggle")
    ELSE JensenWriteThen("massage_foot_toggle",
                         JensenMassageCommand(_massage_head_on, ~_massage_foot_on), link,
                         _lights_on, _underbed_lights_on, _massage_head_on,
                         ~_massage_foot_on)

massage_toggle(link) ==
    IF ~has_massage THEN JensenNotImplemented("massage_toggle")
    ELSE IF _massage_head_on \/ _massage_foot_on
    THEN JensenMassageOff("massage_toggle", link)
    ELSE JensenWriteThen("massage_toggle",
                         JensenMassageCommand(has_massage_head, has_massage_foot), link,
                         _lights_on, _underbed_lights_on,
                         IF has_massage_head THEN TRUE ELSE _massage_head_on,
                         IF has_massage_foot THEN TRUE ELSE _massage_foot_on)

(***************************************************************************)
(* The CB24 controller's light and massage methods.  Each handler is one   *)
(* step, as above: what it assigns before write_command is kept when the   *)
(* write raises, what it assigns afterwards is not reached.                *)
(***************************************************************************)
\* OkinCB24Commands: the light and massage commands of the legacy packets
OkinCB24Commands ==
    [TOGGLE_LIGHTS |-> 131072, MASSAGE_HEAD_UP |-> 2048, MASSAGE_HEAD_DOWN |-> 8388608,
     MASSAGE_FEET_UP |-> 1024, MASSAGE_FEET_DOWN |-> 16777216, MASSAGE_ALL_TOGGLE |-> 256,
     MASSAGE_STOP_ALL |-> 33554432, MASSAGE_WAVE_STEP |-> 268435456,
     MASSAGE_INTENSITY_UP |-> 3072, MASSAGE_INTENSITY_DOWN |-> 25165824]

build_cbnew_massage_command(command_code) == <<42, 0, 0, 2, 1, 1, command_code % 256>>

build_cbnew_light_command(is_on) ==
    <<170, 0, 0, 4, 1, 5, 0, IF is_on THEN 1 ELSE 0, 0, 0, 0, 0>>

LevelUpUncapped(level) == level + 1

\* min(3, level + 1)
LevelUp(level) == IF level + 1 < 3 THEN level + 1 ELSE 3

NextMassageModeOfFive(mode) == (mode % 5) + 1

\* (self._massage_mode % 4) + 1
NextMassageMode(mode) == (mode % 4) + 1

\* A method of the CB24 controller that assigns `pre` to the locally tracked
\* light and massage state, calls write_command(command) and then assigns
\* `post`; link is how the one BLE write ends.
CB24WriteBetween(method, pre, command, post, link) ==
    LET e == BaseWriteEntry("shared")
        raised == IF e = "ConnectionError" THEN e
                  ELSE IF e = "write" /\ link # "ok" THEN link ELSE "none"
        t == IF raised = "none" THEN post ELSE pre
    IN  /\ kind = "cb24"
        /\ pc = "idle"
        /\ call' = [method |-> method, arg |-> <<>>, raised |-> raised, seq |-> 1 - call.seq]
        /\ writes' = IF e = "write" /\ link = "ok" THEN <<command>> ELSE <<>>
        /\ _lights_on' = t.lights
        /\ _massage_on' = t.on
        /\ _massage_head_level' = t.head
        /\ _massage_foot_level' = t.foot
        /\ _massage_mode' = t.mode
        /\ UNCHANGED <<kind, factory_args, ctor_args, _bed_selection, _protocol_variant,
                       _is_new_protocol, encVars, _features, _config_loaded,
                       _underbed_lights_on, _massage_head_on, _massage_foot_on, notifying,
                       updates, trackerVars, _motor_state, envVars, taskVars, log,
                       histVars>>

CB24MassageMethods ==
    {"massage_head_up", "massage_head_down", "massage_head_toggle", "massage_foot_up",
     "massage_foot_down", "massage_foot_toggle", "massage_toggle", "massage_intensity_up",
     "massage_intensity_down", "massage_off", "massage_mode_step"}

CB24LightMethods == {"lights_on", "lights_off", "lights_toggle"}

\* The light and massage methods of OkinCB24Controller
CB24Feature(method, link) ==
    LET t == [lights |-> _lights_on, on |-> _massage_on, head |-> _massage_head_level,
              foot |-> _massage_foot_level, mode |-> _massage_mode]
        \* max(0, level - 1)
        LevelDown(level) == IF level - 1 > 0 THEN level - 1 ELSE 0
        legacy(command_value) ==
            CB24WriteBetween(method, t, _build_command(command_value), t, link)
        massage(pre, command_code, post) ==
            CB24WriteBetween(method, pre, build_cbnew_massage_command(command_code), post,
                             link)
        head_up == LevelUp(t.head)
        head_down == LevelDown(t.head)
        foot_up == LevelUp(t.foot)
        foot_down == LevelDown(t.foot)
        toggled == [t EXCEPT !.on = ~t.on]
        off == [t EXCEPT !.on = FALSE, !.head = 0, !.foot = 0]
        stepped == [t EXCEPT !.mode = NextMassageMode(t.mode)]
    IN  CASE method \in CB24LightMethods ->
               IF _is_new_protocol
               THEN LET is_on == IF method = "lights_toggle" THEN ~t.lights
                                 ELSE method = "lights_on"
                    IN  CB24WriteBetween(method, t, build_cbnew_light_command(is_on),
                                         [t EXCEPT !.lights = is_on], link)
               ELSE legacy(OkinCB24Commands.TOGGLE_LIGHTS)
          [] method \in {"massage_head_up", "massage_head_toggle"} ->
               IF _is_new_protocol
               THEN massage(t, 79 + head_up, [t EXCEPT !.head = head_up])
               ELSE legacy(OkinCB24Commands.MASSAGE_HEAD_UP)
          [] method = "massage_head_down" ->
               IF _is_new_protocol
               THEN massage(t, IF head_down = 0 THEN 83 ELSE 79 + head_down,
                            [t EXCEPT !.head = head_down])
               ELSE legacy(OkinCB24Commands.MASSAGE_HEAD_DOWN)
          [] method \in {"massage_foot_up", "massage_foot_toggle"} ->
               IF _is_new_protocol
               THEN massage(t, 83 + foot_up, [t EXCEPT !.foot = foot_up])
               ELSE legacy(OkinCB24Commands.MASSAGE_FEET_UP)
          [] method = "massage_foot_down" ->
               IF _is_new_protocol
               THEN massage(t, IF foot_down = 0 THEN 87 ELSE 83 + foot_down,
                            [t EXCEPT !.foot = foot_down])
               ELSE legacy(OkinCB24Commands.MASSAGE_FEET_DOWN)
          [] method = "massage_toggle" ->
               IF _is_new_protocol
               THEN massage(toggled, IF toggled.on THEN 64 ELSE 65,
                            IF ~toggled.on THEN [toggled EXCEPT !.head = 0, !.foot = 0]
                            ELSE toggled)
               ELSE legacy(OkinCB24Commands.MASSAGE_ALL_TOGGLE)
          [] method = "massage_intensity_up" ->
               legacy(OkinCB24Commands.MASSAGE_INTENSITY_UP)
          [] method = "massage_intensity_down" ->
               legacy(OkinCB24Commands.MASSAGE_INTENSITY_DOWN)
          [] method = "massage_off" ->
               IF _is_new_protocol
               THEN massage(off, 65, off)
               ELSE legacy(OkinCB24Commands.MASSAGE_STOP_ALL)
          [] method = "massage_mode_step" ->
               IF _is_new_protocol
               THEN massage(stepped, 65 + stepped.mode, stepped)
               ELSE legacy(OkinCB24Commands.MASSAGE_WAVE_STEP)

(***************************************************************************)
(* Specifications.                                                         *)
(***************************************************************************)
\* Both controllers on a link that can fail, with cancellation.
Next ==
    \/ \E m \in Motors, d \in Directions : MoveStart(m, d)
    \/ \E c \in PresetCommands : PresetStart(c)
    \/ JensenPresetFlat
    \/ \E memory_num \in {1, 2} : JensenPresetMemory(memory_num)
    \/ StopAll
    \/ WriteDone
    \/ WriteFail
    \/ SleepDone
    \/ TaskCancel
    \/ \E s \in {"own", "stale"} : InnerRun(s)
    \/ \E s \in {"own", "stale"} : InnerWriteDone(s)
    \/ \E s \in {"own", "stale"} : InnerWriteFail(s)
    \/ Disconnect
    \/ Connect
    \/ SetCancel
    \/ ClearCancel

Spec == Init /\ [][Next]_vars

\* The CB24 controller on a link that works, as the clock advances.
InitAdaptive ==
    /\ InitCommon
    /\ connected = TRUE
    /\ InitCB24

NextAdaptive ==
    \/ \E c \in PresetCommands : TrackedPresetStart(c)
    \/ WriteDone
    \/ SleepDone
    \/ \E s \in {"own", "stale"} : InnerRun(s)
    \/ \E s \in {"own", "stale"} : InnerWriteDone(s)
    \/ \E d \in TickSteps : Tick(d)

SpecAdaptive == InitAdaptive /\ [][NextAdaptive]_vars

\* The factory, from every combination of its arguments.
InitFactory ==
    /\ InitCommon
    /\ connected = TRUE
    /\ kind = "none"
    /\ factory_args \in [protocol_variant : ExplicitVariants,
                         device_name : DeviceNames,
                         manufacturer_data : ManufacturerPayloads]
    /\ ctor_args = NoCtorArgs
    /\ _protocol_variant = "none"
    /\ _is_new_protocol = FALSE
    /\ _continuous_presets = FALSE
    /\ _adaptive_preset_fallback = FALSE

NextFactory == create_controller

SpecFactory == InitFactory /\ [][NextFactory]_vars

\* A controller of a family that is only modelled as far as its packets.
InitEncoderOnly ==
    /\ InitCommon
    /\ connected = TRUE
    /\ factory_args = NoFactoryArgs
    /\ ctor_args = NoCtorArgs
    /\ _is_new_protocol = FALSE
    /\ _continuous_presets = FALSE
    /\ _adaptive_preset_fallback = FALSE

\* The Remacro controller building packet after packet.
InitRemacro ==
    /\ InitEncoderOnly
    /\ kind = "remacro"
    /\ _protocol_variant = "none"

NextRemacro ==
    \E command \in RemacroCommandValues, parameter \in RemacroParameters :
        Remacro_build_packet(command, parameter)

SpecRemacro == InitRemacro /\ [][NextRemacro]_vars

\* The controllers of the checksummed families building packets.
InitChecksum ==
    /\ InitEncoderOnly
    /\ \/ kind \in {"malouf_legacy", "sleepys_box15"} /\ _protocol_variant = "none"
       \/ kind = "rondure" /\ _protocol_variant \in RondureVariants

NextChecksum ==
    \/ \E command \in FlagCommandValues : Malouf_build_command(command)
    \/ \E command \in FlagCommandValues : Rondure_build_packet(command)
    \/ \E command \in Box15MotorCommands : Box15_build_motor_command(command)
    \/ \E bytes \in Box15PresetBytes : Box15_build_preset_command(bytes)

SpecChecksum == InitChecksum /\ [][NextChecksum]_vars

\* The encoders of the 32-bit families called with integers of any sign.
InitEncoderCalls ==
    /\ InitEncoderOnly
    /\ kind = "encoders"
    /\ _protocol_variant = "none"

NextEncoders ==
    \/ \E command_value \in EncoderCommandValues : Call_build_okin_command(command_value)
    \/ \E command_value \in EncoderCommandValues, bed_selection \in BedSelections :
          Call_build_cb24_command(command_value, bed_selection)
    \/ \E command_value \in EncoderCommandValues :
          Call_build_cbnew_motor_command(command_value)

SpecEncoders == InitEncoderCalls /\ [][NextEncoders]_vars

\* The Vibradorm controller programming its memory slots on a link that works.
InitVibradorm ==
    /\ InitEncoderOnly
    /\ kind = "vibradorm"
    /\ _protocol_variant = "none"

NextVibradorm ==
    \/ \E memory_num \in 1..6 : Vibradorm_program_memory(memory_num)
    \/ VibradormWriteDone

SpecVibradorm == InitVibradorm /\ [][NextVibradorm]_vars

\* The Okin Nordic controller writing command after command on a link that
\* works.
InitNordic ==
    /\ InitEncoderOnly
    /\ kind = "okin_nordic"
    /\ _protocol_variant = "none"

NextNordic ==
    \E command \in NordicCommands, repeat_count \in 1..3 :
        Nordic_write_command(command, repeat_count)

SpecNordic == InitNordic /\ [][NextNordic]_vars

\* The motor state of an OkinMotorStateMachine and of a CB24 controller that
\* moves, on a link that can fail.
InitMotors ==
    /\ InitCommon
    /\ connected = TRUE
    /\ \/ InitCB24
       \/ /\ InitEncoderOnly
          /\ kind = "okin_motor_state"
          /\ _protocol_variant = "none"

NextMotors ==
    \/ \E motor \in OkinMotors, direction \in {"up", "down", "none"} :
          set_motor(motor, direction)
    \/ clear
    \/ \E m \in Motors, d \in Directions : MoveStart(m, d)
    \/ WriteDone
    \/ WriteFail
    \/ SleepDone
    \/ TaskCancel
    \/ \E s \in {"own", "stale"} : InnerRun(s)
    \/ \E s \in {"own", "stale"} : InnerWriteDone(s)
    \/ \E s \in {"own", "stale"} : InnerWriteFail(s)

SpecMotors == InitMotors /\ [][NextMotors]_vars

\* Both controllers as constructed, and the Jensen controller's feature
\* detection and feature methods on a link that can fail.
NextFeatures ==
    \/ \E outcome \in JensenQueryOutcomes, data \in JensenNotifications :
          query_config(outcome, data)
    \/ \E link \in LinkOutcomes : JensenLights("lights_on", TRUE, link)
    \/ \E link \in LinkOutcomes : JensenLights("lights_off", FALSE, link)
    \/ \E link \in LinkOutcomes : JensenLights("lights_toggle", ~_lights_on, link)
    \/ \E link \in LinkOutcomes : JensenUnderbedLights("underbed_lights_on", TRUE, link)
    \/ \E link \in LinkOutcomes : JensenUnderbedLights("underbed_lights_off", FALSE, link)
    \/ \E link \in LinkOutcomes :
          JensenUnderbedLights("underbed_lights_toggle", ~_underbed_lights_on, link)
    \/ \E link \in LinkOutcomes : JensenMassageOff("massage_off", link)
    \/ \E link \in LinkOutcomes : massage_head_toggle(link)
    \/ \E link \in LinkOutcomes : massage_foot_toggle(link)
    \/ \E link \in LinkOutcomes : massage_toggle(link)
    \/ Disconnect
    \/ Connect
    \/ SetCancel
    \/ ClearCancel

SpecFeatures == Init /\ [][NextFeatures]_vars

\* preset_memory of both controllers, with slot numbers inside and outside
\* the range, on a link that can fail.
NextPresetMemory ==
    \/ \E memory_num \in 0..4 : JensenPresetMemory(memory_num)
    \/ \E memory_num \in 0..4 : CB24PresetMemory(memory_num)
    \/ WriteDone
    \/ WriteFail
    \/ SleepDone
    \/ \E s \in {"own", "stale"} : InnerRun(s)
    \/ \E s \in {"own", "stale"} : InnerWriteDone(s)
    \/ \E s \in {"own", "stale"} : InnerWriteFail(s)
    \/ Disconnect
    \/ Connect
    \/ SetCancel
    \/ ClearCancel

SpecPresetMemory == Init /\ [][NextPresetMemory]_vars

\* The CB24 controller's light and massage methods on a link that can fail.
InitMassage ==
    /\ InitCommon
    /\ connected \in BOOLEAN
    /\ InitCB24
    /\ ~ctor_args.adaptive_preset_fallback

NextMassage ==
    \/ \E method \in CB24LightMethods \cup CB24MassageMethods, link \in LinkOutcomes :
          CB24Feature(method, link)
    \/ Disconnect
    \/ Connect
    \/ SetCancel
    \/ ClearCancel

SpecMassage == InitMassage /\ [][NextMassage]_vars

(***************************************************************************)
(* Properties.                                                             *)
(***************************************************************************)
\* The operation has ended, and so has the shielded STOP task it created.
Ended == pc = "done" /\ shielded.own = NoTask

IsMoveUpDown == op.name = "move" /\ op.direction \in {"up", "down"}

\* C1 as stated: every move_*_up / move_*_down invocation ends with a last BLE
\* write equal to the family's STOP packet.
C1_LastWriteIsStop ==
    (Ended /\ IsMoveUpDown) => log.lastWrite = StopPacket

\* C1 amended: every move_*_up / move_*_down invocation calls write_command with
\* the STOP packet after the movement, whatever the movement's outcome, and its
\* last BLE write is the STOP packet whenever the client is connected at that call.
C1_StopWrittenWhenConnected ==
    (Ended /\ IsMoveUpDown) =>
        /\ log.cleanup.called
        /\ log.calls[Len(log.calls)].command = StopPacket
        /\ log.cleanup.conn = "yes" => log.lastWrite = StopPacket

\* A movement write raised BleakError part-way through the pulses and the STOP
\* packet was the last write.
C1_Witness ==
    /\ Ended /\ IsMoveUpDown
    /\ exc = "BleakError"
    /\ log.nWrites >= 3
    /\ log.lastWrite = StopPacket

C3_CleanupFailureNeverRaised ==
    (pc = "done" /\ op.stop /\ log.cleanup.out \in {"BleakError", "ConnectionError"}) =>
        result.exc = exc

\* C4: a CancelledError that arrives while the cleanup STOP write is running is
\* raised to the caller.
C4_CleanupCancellationPropagates ==
    (pc = "done" /\ log.cleanup.out = "CancelledError") =>
        result = [exc |-> "CancelledError", origin |-> "cleanup"]

\* The movement write failed, the task was cancelled during the shielded STOP,
\* and the caller got the CancelledError.
C4_Witness ==
    /\ pc = "done" /\ kind = "cb24"
    /\ exc = "BleakError"
    /\ log.cleanup.out = "CancelledError"
    /\ result.exc = "CancelledError"

(***************************************************************************)
(* Properties of adaptive preset promotion (SpecAdaptive).                 *)
(***************************************************************************)
NReqs == Len(reqs)
\* The latest preset request, the one before it, and the one before that.
Cur == reqs[NReqs]
Prev == reqs[NReqs - 1]
Prev2 == reqs[NReqs - 2]

SamePreset(a, b) == a.command_value = b.command_value
\* Request b arrived inside the retry window of request a.
InWindow(a, b) == b.t - a.t <= _ADAPTIVE_PRESET_RETRY_WINDOW_SECONDS

OneShotCalls(command_value) ==
    << [command |-> _build_preset_command(command_value), repeat_count |-> 1,
        cancel_event |-> "shared"] >>

BurstThenStopCalls(command_value) ==
    << [command |-> _build_preset_command(command_value),
        repeat_count |-> _PRESET_CONTINUOUS_COUNT, cancel_event |-> "shared"],
       [command |-> _build_stop_command, repeat_count |-> 1, cancel_event |-> "fresh"] >>

\* C5 as stated: on a controller built with adaptive fallback, the second of two
\* requests of the same preset inside the retry window is sent in continuous
\* mode and leaves _continuous_presets True.
C5_SecondRequestPromotes ==
    (/\ NReqs = 2 /\ reqs[1].adaptiveBefore
     /\ SamePreset(reqs[1], reqs[2]) /\ InWindow(reqs[1], reqs[2])) =>
        /\ reqs[2].mode = "continuous"
        /\ _continuous_presets

C7_DifferentPresetStaysOneShot ==
    (NReqs >= 2 /\ Cur.adaptiveBefore /\ ~SamePreset(Prev, Cur)) =>
        /\ Prev.mode = "oneshot" /\ Cur.mode = "oneshot"
        /\ ~_continuous_presets /\ _adaptive_preset_fallback
        /\ pc = "done" => log.calls = OneShotCalls(Cur.command_value)

\* A different preset arrived inside the window of a preset that had already
\* been retried once.
C7_Witness ==
    /\ NReqs = 3 /\ pc = "done"
    /\ Cur.adaptiveBefore /\ ~SamePreset(Prev, Cur) /\ InWindow(Prev, Cur)
    /\ SamePreset(Prev2, Prev) /\ InWindow(Prev2, Prev)
    /\ log.nWrites = 1

\* C8: with adaptive fallback enabled, the same preset again more than the retry
\* window after the previous request is a fresh request: one-shot,
\* _continuous_presets False, adaptive fallback enabled, no retry counted.
C8_LateRepeatStaysOneShot ==
    (NReqs >= 2 /\ Cur.adaptiveBefore /\ SamePreset(Prev, Cur) /\ ~InWindow(Prev, Cur)) =>
        /\ Cur.mode = "oneshot"
        /\ ~_continuous_presets /\ _adaptive_preset_fallback
        /\ _same_preset_retry_count = 0
        /\ pc = "done" => log.calls = OneShotCalls(Cur.command_value)

\* The same preset, 13 seconds after a request that was itself a counted retry.
C8_Witness ==
    /\ NReqs = 3 /\ pc = "done"
    /\ Cur.adaptiveBefore /\ SamePreset(Prev, Cur)
    /\ Cur.t - Prev.t = _ADAPTIVE_PRESET_RETRY_WINDOW_SECONDS + 1
    /\ SamePreset(Prev2, Prev) /\ InWindow(Prev2, Prev)
    /\ log.nWrites = 1

\* C9: promotion is permanent.  After a promotion the controller stays in
\* continuous mode with adaptive fallback off, and every preset request is sent
\* as a burst followed by STOP.
C9_PromotionIsPermanent ==
    everPromoted =>
        /\ _continuous_presets /\ ~_adaptive_preset_fallback
        /\ Cur.mode = "continuous"
        /\ pc = "done" => log.calls = BurstThenStopCalls(Cur.command_value)

\* After the promotion, another preset was requested more than the retry
\* window later and was sent as a burst followed by STOP.
C9_Witness ==
    /\ everPromoted /\ pc = "done" /\ NReqs >= 2
    /\ ~Cur.adaptiveBefore
    /\ ~SamePreset(Prev, Cur) /\ ~InWindow(Prev, Cur)
    /\ log.nWrites = _PRESET_CONTINUOUS_COUNT + 1

\* Cur is no quick retry of the request before it.
CurRestarts == NReqs = 1 \/ ~SamePreset(Prev, Cur) \/ ~InWindow(Prev, Cur)
PrevRestarts == NReqs = 2 \/ ~SamePreset(Prev2, Prev) \/ ~InWindow(Prev2, Prev)

\* C10: with adaptive fallback enabled, a request of a different preset, or one
\* after the retry window has elapsed, resets the tracker to that request
\* (count 0, its preset, its time), and the request after such a reset never
\* promotes, whatever was counted before.
C10_TrackerReset ==
    /\ (NReqs >= 1 /\ Cur.adaptiveBefore /\ CurRestarts) =>
          /\ _same_preset_retry_count = 0
          /\ _last_one_shot_preset_command = Cur.command_value
          /\ _last_one_shot_preset_monotonic = Cur.t
    /\ (NReqs >= 2 /\ Prev.adaptiveBefore /\ PrevRestarts) =>
          Cur.mode = "oneshot"

\* A retry had been counted for one preset, then another preset was requested
\* (a reset) and requested again inside the window: still one-shot.
C10_Witness ==
    /\ NReqs >= 3 /\ pc = "done"
    /\ Cur.adaptiveBefore /\ SamePreset(Prev, Cur) /\ InWindow(Prev, Cur)
    /\ ~SamePreset(Prev2, Prev) /\ InWindow(Prev2, Prev)
    /\ _same_preset_retry_count = 1
    /\ Cur.mode = "oneshot"

(***************************************************************************)
(* Properties of the controller factory (SpecFactory).                     *)
(***************************************************************************)
CreatedByFactory == kind = "cb24" /\ factory_args # NoFactoryArgs

AutoDetected == CreatedByFactory /\ factory_args.protocol_variant = "None"

\* C11: a controller created with an explicit protocol variant uses exactly
\* that variant, whatever the device name and the manufacturer data.
C11_ExplicitVariantWins ==
    (CreatedByFactory /\ factory_args.protocol_variant # "None")
        => /\ _protocol_variant = factory_args.protocol_variant
           /\ ctor_args.protocol_variant = factory_args.protocol_variant

\* An explicit variant against a name and a payload that both stand for another one.
C11_Witness ==
    /\ CreatedByFactory
    /\ factory_args = [protocol_variant |-> "cb24", device_name |-> "smartbed1234567890",
                       manufacturer_data |-> PAYLOAD_AB]
    /\ _protocol_variant = "cb24"

\* C12: without an explicit variant, a recognised manufacturer-data marker
\* gives the variant even when the name matches the name heuristic; an
\* unrecognised payload falls through to the name heuristic; and when neither
\* matches the variant is the default of the bed type (cb24).
C12_MarkerThenNameThenDefault ==
    AutoDetected =>
        /\ factory_args.manufacturer_data \in {PAYLOAD_AB, PAYLOAD_OK, PAYLOAD_DOT_1,
                                               PAYLOAD_DOT_2, PAYLOAD_DOT_3}
              => /\ _protocol_variant # "cb27new"
                 /\ _protocol_variant =
                        (CASE factory_args.manufacturer_data = PAYLOAD_AB -> "cb24_ab"
                           [] factory_args.manufacturer_data = PAYLOAD_OK -> "cb27"
                           [] factory_args.manufacturer_data = PAYLOAD_DOT_1 -> "dacheng"
                           [] factory_args.manufacturer_data = PAYLOAD_DOT_2 -> "cb1221"
                           [] factory_args.manufacturer_data = PAYLOAD_DOT_3 -> "cb24")
        /\ (/\ factory_args.manufacturer_data \in {<<>>, PAYLOAD_UNKNOWN}
            /\ factory_args.device_name = "smartbed1234567890")
              => _protocol_variant = "cb27new"
        /\ (/\ factory_args.manufacturer_data \in {<<>>, PAYLOAD_UNKNOWN}
            /\ factory_args.device_name = "SmartBed-Not18")
              => _protocol_variant = "cb24"

\* A marker against a name that matches the name heuristic.
C12_Witness ==
    /\ AutoDetected
    /\ factory_args.device_name = "smartbed1234567890"
    /\ factory_args.manufacturer_data = PAYLOAD_AB
    /\ _protocol_variant = "cb24_ab"

\* C13 as stated: adaptive preset fallback is enabled on a controller created
\* from an auto-detected variant and disabled on one created from a manually
\* supplied variant.
C13_AdaptiveIffAutoDetected ==
    CreatedByFactory => (_adaptive_preset_fallback = AutoDetected)

\* C13, amended: adaptive preset fallback is enabled exactly on a controller
\* created from an auto-detected legacy variant; it is disabled on one created
\* from a manual variant and on one auto-detected as a new-protocol variant.
C13_AdaptiveIffAutoDetectedLegacy ==
    CreatedByFactory =>
        /\ ctor_args.adaptive_preset_fallback = AutoDetected
        /\ _adaptive_preset_fallback = (AutoDetected /\ ~_is_new_protocol)
        /\ AutoDetected => _protocol_variant \notin _CONTINUOUS_PRESET_VARIANTS

\* The factory passed the flag on, and the controller of a new-protocol variant
\* dropped it.
C13_Witness ==
    /\ AutoDetected
    /\ _protocol_variant = "cb27new"
    /\ ctor_args.adaptive_preset_fallback
    /\ ~_adaptive_preset_fallback

(***************************************************************************)
(* Properties of write_command (Spec).                                     *)
(***************************************************************************)
\* The operation made a write_command call in its try block (or as its only
\* statement); a CB24 move whose combined command is 0 goes straight to STOP.
HasPrimaryCall ==
    /\ op.name \notin {"none", "preset_memory"}
    /\ ~(kind = "cb24" /\ op.name = "move" /\ op.command_value = 0)

\* The step issues a BLE write of the operation's task.
WriteIssued == pc' = "writing" /\ frame' # frame

\* The event a write_command call looks at is set.
EventIsSet(cancel_event) == cancel_event = "shared" /\ cancel_command

\* C14: write_command checks the cancel event before each repeated write: no
\* write is issued while the event is set; a call that finds the event set
\* returns without raising, before it has made all its writes; and a call that
\* neither found the event set nor had a write fail has made exactly
\* repeat_count writes.
C14_CancelCheckedBeforeEachWrite ==
    /\ [][WriteIssued => ~EventIsSet(frame'.cancel_event)]_vars
    /\ [](log.cancelled = "event"
            => /\ exc = "ok"
               /\ log.primaryWrites < log.calls[1].repeat_count)
    /\ []((HasPrimaryCall /\ exc = "ok" /\ log.cancelled = "none")
            => log.primaryWrites = log.calls[1].repeat_count)

\* A Jensen movement stopped by the event after some of its ten writes.
C14_Witness ==
    /\ kind = "jensen"
    /\ Ended
    /\ IsMoveUpDown
    /\ log.cancelled = "event"
    /\ log.primaryWrites = 2
    /\ result.exc = "ok"

\* C15: a write_command call made while the transport is not connected raises
\* a connection-class error to its caller, issues no BLE write and is made only
\* once; the operation's caller gets a connection-class error (unless the task
\* is cancelled during the cleanup, which raises CancelledError instead).
C15_NotConnectedRaises ==
    /\ (HasPrimaryCall /\ log.primaryConn = "no")
          => /\ exc = "ConnectionError"
             /\ log.primaryWrites = 0
             /\ Len(log.calls) = (IF log.cleanup.called THEN 2 ELSE 1)
             /\ (Ended /\ log.cleanup.out # "CancelledError")
                   => result.exc = "ConnectionError"
    /\ (log.cleanup.called /\ log.cleanup.conn = "no")
          => /\ log.cleanup.out \in {"none", "ConnectionError", "CancelledError"}
             /\ log.nWrites = log.primaryWrites
    /\ (HasPrimaryCall /\ log.primaryConn = "yes") => exc # "ConnectionError"

\* stop_all on a Jensen controller whose client is not connected.
C15_Witness ==
    /\ kind = "jensen"
    /\ op.name = "stop_all"
    /\ Ended
    /\ log.primaryConn = "no"
    /\ log.nWrites = 0
    /\ result = [exc |-> "ConnectionError", origin |-> "primary"]

(***************************************************************************)
(* Properties of the write sequencing (Spec).                              *)
(***************************************************************************)
\* The write_gatt_char calls of the controller that have not returned yet.
WritesInFlight ==
    (IF pc = "writing" THEN {"task"} ELSE {})
    \cup {s \in {"own", "stale"} : shielded[s].state = "writing"}

\* C16: at any moment at most one BLE write of the controller is in flight,
\* the shielded cleanup STOP write of a cancelled operation and the first
\* write of the next operation included.
C16_AtMostOneWriteInFlight == Cardinality(WritesInFlight) <= 1

(***************************************************************************)
(* Properties of the preset policies.                                      *)
(***************************************************************************)
\* A preset sent as a repeated burst of the preset packet has ended, after at
\* least one write of the preset packet.
ContinuousPresetEnded ==
    /\ Ended
    /\ op.name = "preset"
    /\ Len(log.calls) >= 1
    /\ log.calls[1].repeat_count > 1
    /\ log.primaryWrites >= 1

\* C17: every preset sent as a repeated burst is followed by a STOP write once
\* the burst ends (completed, failed or cancelled): write_command is called
\* with the STOP packet after the burst, and the STOP packet is the last write
\* when the client is connected at that call.
C17_BurstFollowedByStop ==
    ContinuousPresetEnded =>
        /\ log.cleanup.called
        /\ log.calls[Len(log.calls)].command = StopPacket
        /\ log.cleanup.conn = "yes" => log.lastWrite = StopPacket

\* The CBNew memory packets of the two memory presets, byte by byte
\* (2A 00 00 01 03 01 idx; Memory 1 is index 2, Memory 2 is index 3).
ExpectedMemoryPacket(command_value) ==
    IF command_value = PRESET_MEMORY_1 THEN <<42, 0, 0, 1, 3, 1, 2>>
    ELSE <<42, 0, 0, 1, 3, 1, 3>>

\* C18: on a new-protocol controller every preset request makes one
\* write_command call with the memory packet, one write, and no STOP, whatever
\* adaptive_preset_fallback was at construction and however often and quickly
\* the same preset is repeated; the controller never becomes continuous.
C18_NewProtocolPresetIsOneShot ==
    (kind = "cb24" /\ _is_new_protocol /\ op.name = "preset") =>
        /\ ~op.stop
        /\ log.calls = << [command |-> ExpectedMemoryPacket(op.command_value),
                           repeat_count |-> 1, cancel_event |-> "shared"] >>
        /\ ~log.cleanup.called
        /\ log.nWrites = 1
        /\ log.lastWrite = ExpectedMemoryPacket(op.command_value)
        /\ ~_continuous_presets /\ ~_adaptive_preset_fallback
        /\ _same_preset_retry_count = 0
        /\ \A k \in 1..NReqs : reqs[k].mode = "oneshot"

\* The third request of the same preset at the same instant, on a cb27new
\* controller constructed with adaptive_preset_fallback=True.
C18_Witness ==
    /\ kind = "cb24" /\ _protocol_variant = "cb27new"
    /\ ctor_args.adaptive_preset_fallback
    /\ NReqs = 3 /\ pc = "done"
    /\ SamePreset(Prev2, Prev) /\ SamePreset(Prev, Cur)
    /\ Prev2.t = Cur.t
    /\ log.nWrites = 1
    /\ result.exc = "ok"

(***************************************************************************)
(* Properties of the packet encoders (SpecRemacro, SpecChecksum).          *)
(***************************************************************************)
\* C19: Remacro serial numbers start at 1, go up by exactly 1 with each packet
\* built and wrap from 255 directly to 1: the k-th packet carries serial
\* ((k - 1) mod 255) + 1, which is never 0.
C19_SerialSequence ==
    kind = "remacro" =>
        /\ _serial \in 1..255
        /\ n_packets = 0 => _serial = 1
        /\ n_packets >= 1 =>
              /\ packet[1] = ((n_packets - 1) % 255) + 1
              /\ packet[1] # 0
              /\ _serial = (IF packet[1] = 255 THEN 1 ELSE packet[1] + 1)

\* The 256th packet: the serial after 255 is 1.
C19_Witness ==
    /\ kind = "remacro"
    /\ n_packets = 256
    /\ packet[1] = 1
    /\ _serial = 2

Encoders32 == {"build_okin_command", "build_cb24_command", "build_cbnew_motor_command"}

\* C21: every integer-command encoder of a 32-bit family (build_okin_command,
\* build_cb24_command, build_cbnew_motor_command) raises ValueError for an
\* integer outside [0, 0xFFFFFFFF] and builds no packet from it.
C21_OutOfRangeRaises ==
    (call.method \in Encoders32 /\ ~InRange32(call.arg[1]))
        => (call.raised = "ValueError" /\ packet = NoPacket)

\* The same for the two encoders that go through int_to_bytes.
C21_IntToBytesEncodersRaise ==
    (call.method \in {"build_okin_command", "build_cb24_command"}
     /\ ~InRange32(call.arg[1]))
        => (call.raised = "ValueError" /\ packet = NoPacket)

(***************************************************************************)
(* The legacy CB24 packet.                                                 *)
(***************************************************************************)
IsByte(b) == b \in 0..255

\* C22: for a command value in [0, 0xFFFFFFFF] and a bed-selection byte the
\* legacy CB24 encoder returns 7 bytes: 0x05, 0x02, the four bytes of the
\* command value, most significant first, and the bed-selection byte; the
\* packet depends on nothing but these two inputs.
C22_CB24PacketLayout ==
    (call.method = "build_cb24_command" /\ InRange32(call.arg[1]))
        => /\ call.raised = "none"
           /\ Len(packet) = 7
           /\ packet[1] = 5 /\ packet[2] = 2
           /\ \A i \in 3..6 : IsByte(packet[i])
           /\ ((packet[3] * 256 + packet[4]) * 256 + packet[5]) * 256 + packet[6]
                 = call.arg[1]
           /\ packet[7] = call.arg[2]

\* build_cb24_command(PRESET_FLAT, 0x00) gave 05 02 08 00 00 00 00
C22_Witness ==
    /\ call.method = "build_cb24_command"
    /\ call.arg = <<PRESET_FLAT, 0>>
    /\ packet = <<5, 2, 8, 0, 0, 0, 0>>

(***************************************************************************)
(* Capabilities.                                                           *)
(***************************************************************************)
\* C23: whenever a controller reports supports_memory_presets, its
\* memory_slot_count is greater than 0.
C23_MemoryPresetsHaveSlots == supports_memory_presets => memory_slot_count > 0

\* a Jensen controller whose flags were resolved reports one slot
C23_Witness ==
    /\ kind = "jensen"
    /\ _config_loaded
    /\ supports_memory_presets
    /\ memory_slot_count = 1

\* C24: a capability reported as supported has a method of the controller's
\* own class behind it: supports_lights one of lights_on / lights_off /
\* lights_toggle, supports_discrete_light_control both lights_on and
\* lights_off, supports_massage one of the massage methods.
C24_CapabilitiesAreImplemented ==
    \A inherited \in BOOLEAN :
        /\ supports_lights
              => {"lights_on", "lights_off", "lights_toggle"} \cap Overridden # {}
        /\ supports_discrete_light_control(inherited)
              => {"lights_on", "lights_off"} \subseteq Overridden
        /\ supports_massage(inherited)
              => {"massage_off", "massage_toggle", "massage_head_toggle",
                  "massage_foot_toggle", "massage_mode_step"} \cap Overridden # {}

\* a Jensen controller reports lights after the bed reported the flag, and
\* its own lights_on has written the packet
C24_Witness ==
    /\ kind = "jensen"
    /\ _config_loaded
    /\ supports_lights
    /\ call.method = "lights_on"
    /\ writes = <<JensenCommands.LIGHT_MAIN_ON>>

(***************************************************************************)
(* Jensen feature detection.                                               *)
(***************************************************************************)
IsCall(method) == call'.method = method /\ call'.seq # call.seq

QueryTook(paths) == IsCall("query_config") /\ call'.arg[1] \in paths

TransportErrors == {"start_notify_error", "write_error", "stop_notify_error"}

\* C28 as stated: the flags become resolved only through a response or the
\* timeout fallback; when the client is not connected or the transport fails
\* during the query they stay unresolved, and a later query_config call
\* queries again.
C28_ResolvedOnlyByResponseOrTimeout ==
    [][/\ (~_config_loaded /\ _config_loaded') => QueryTook({"response", "timeout"})
       /\ QueryTook({"not_connected"} \cup TransportErrors)
             => (~_config_loaded' /\ _features' = _features)
       /\ (IsCall("query_config") /\ ~_config_loaded /\ connected)
             => call'.arg[1] \notin {"loaded", "not_connected"}]_vars

\* C28, amended: the flags become resolved through a response, the timeout
\* fallback, or a transport error during the query, which leaves the flags
\* as they were and marks them resolved; they stay unresolved only when the
\* client is not connected (or the task is cancelled), and then a later
\* query_config call on a connected client queries again.
C28_ResolvedByResponseTimeoutOrError ==
    [][/\ (~_config_loaded /\ _config_loaded')
             => QueryTook({"response", "timeout"} \cup TransportErrors)
       /\ QueryTook(TransportErrors) => (_config_loaded' /\ _features' = _features)
       /\ QueryTook({"not_connected", "cancelled"})
             => (~_config_loaded' /\ _features' = _features)
       /\ (IsCall("query_config") /\ ~_config_loaded /\ connected)
             => call'.arg[1] \notin {"loaded", "not_connected"}
       /\ (IsCall("query_config") /\ _config_loaded)
             => (call'.arg[1] = "loaded" /\ writes' = <<>> /\ _features' = _features)]_vars

\* the write of CONFIG_READ_ALL failed: the flags are resolved, none is set
C28_Witness ==
    /\ call.method = "query_config"
    /\ call.arg[1] = "write_error"
    /\ _config_loaded
    /\ _features = 0

(***************************************************************************)
(* Jensen capability-gated methods.                                        *)
(***************************************************************************)
\* The flag (or flags) a gated method needs
GateOpen(method) ==
    CASE method \in {"lights_on", "lights_off", "lights_toggle"}
           -> HasFlag(_features, JensenFeatureFlags_LIGHT)
      [] method \in {"underbed_lights_on", "underbed_lights_off", "underbed_lights_toggle"}
           -> HasFlag(_features, JensenFeatureFlags_LIGHT_UNDERBED)
      [] method = "massage_head_toggle" -> HasFlag(_features, JensenFeatureFlags_MASSAGE_HEAD)
      [] method = "massage_foot_toggle" -> HasFlag(_features, JensenFeatureFlags_MASSAGE_FOOT)
      [] method = "massage_toggle"
           -> \/ HasFlag(_features, JensenFeatureFlags_MASSAGE_HEAD)
              \/ HasFlag(_features, JensenFeatureFlags_MASSAGE_FOOT)

GatedMethods ==
    {"lights_on", "lights_off", "lights_toggle", "underbed_lights_on",
     "underbed_lights_off", "underbed_lights_toggle", "massage_head_toggle",
     "massage_foot_toggle", "massage_toggle"}

\* C29: a gated method of the Jensen controller called while its flag is not
\* set raises NotImplementedError, writes nothing and leaves the on/off
\* state as it was.
C29_GatedMethodRaises ==
    [][\A method \in GatedMethods :
          (IsCall(method) /\ ~GateOpen(method))
              => /\ call'.raised = "NotImplementedError"
                 /\ writes' = <<>>
                 /\ UNCHANGED <<_lights_on, _underbed_lights_on, _massage_head_on,
                                _massage_foot_on>>]_vars

\* the bed reported main lights only, and under-bed lights were asked for
C29_Witness ==
    /\ _config_loaded
    /\ _features = JensenFeatureFlags_LIGHT
    /\ _lights_on
    /\ call.method = "underbed_lights_on"
    /\ call.raised = "NotImplementedError"
    /\ ~_underbed_lights_on

(***************************************************************************)
(* Malformed notifications.                                                *)
(***************************************************************************)
\* A config notification below the minimum length, or whose first byte is
\* not the type of the config commands (0x0A)
JensenMalformed(data) == Len(data) < 3 \/ data[1] # 10

\* C25: a notification that is too short or has an unexpected header byte is
\* dropped: no error is raised, no callback is invoked, and the controller
\* is as it was before, for later notifications and commands.
C25_MalformedNotificationDropped ==
    [][(QueryTook({"response"}) /\ JensenMalformed(call'.arg[2]))
          => /\ call'.raised = "none"
             /\ updates' = updates
             /\ UNCHANGED featVars]_vars

(***************************************************************************)
(* Motor state.                                                            *)
(***************************************************************************)
\* The command holds the up bit and the down bit of one motor
OpposedBits(command) ==
    \/ HasFlag(command, 1) /\ HasFlag(command, 2)
    \/ HasFlag(command, 4) /\ HasFlag(command, 8)
    \/ HasFlag(command, 16) /\ HasFlag(command, 32)
    \/ HasFlag(command, 64) /\ HasFlag(command, 128)

\* C26: whatever the motor-state mapping, the combined motor command never
\* holds both the up bit and the down bit of the same motor (of the motor
\* state machine; of the CB24 controller, also in the command it sends).
C26_OneDirectionPerMotor ==
    IF kind = "okin_motor_state"
    THEN ~OpposedBits(get_combined_command(_motor_state))
    ELSE /\ ~OpposedBits(_get_move_command(_motor_state))
         /\ op.name = "move" => ~OpposedBits(op.command_value)

\* head up, feet down, tilt down and lumbar up are combined into one command
C26_Witness ==
    /\ kind = "okin_motor_state"
    /\ StateGet(_motor_state, "head") = "up"
    /\ StateGet(_motor_state, "feet") = "down"
    /\ StateGet(_motor_state, "tilt") = "down"
    /\ StateGet(_motor_state, "lumbar") = "up"
    /\ get_combined_command(_motor_state) = 105

\* C27: when a move-then-stop cycle of the CB24 controller has ended, by
\* completing, by a failed write or by cancellation, the motor-state mapping
\* is empty.
C27_MotorStateClearedAfterMove ==
    (kind = "cb24" /\ op.name = "move" /\ pc \in {"shield", "done"})
        => _motor_state = NoMotorState

\* a movement was cancelled after it had written its command
C27_Witness ==
    /\ kind = "cb24"
    /\ op.name = "move"
    /\ op.direction # "stop"
    /\ pc = "done"
    /\ log.primaryWrites >= 1
    /\ log.cancelled = "task"
    /\ _motor_state = NoMotorState

\* ... and one ended with a failed write
C27_WitnessWriteFailed ==
    /\ kind = "cb24"
    /\ op.name = "move"
    /\ pc = "done"
    /\ exc = "BleakError"
    /\ _motor_state = NoMotorState

(***************************************************************************)
(* Vibradorm memory programming.                                           *)
(***************************************************************************)
\* STORE (0x0D) four times behind the toggle bytes 00, 80, 00, 80, the command
\* of slot n behind 00, and STOP (0xFF) four times
StoreSequence(n) ==
    <<<<0, 13>>, <<128, 13>>, <<0, 13>>, <<128, 13>>,
      <<0, <<14, 15, 12, 26, 27, 28>>[n]>>,
      <<255>>, <<255>>, <<255>>, <<255>>>>

\* C30: Vibradorm program_memory(n) writes STORE four times with the toggle
\* bit 0, 1, 0, 1, then the command of slot n with the toggle bit 0, then
\* STOP four times, in this order and nothing else.
C30_StoreSequence ==
    call.method = "program_memory"
        => /\ pc = "done" => writes = StoreSequence(call.arg[1])
           /\ Len(writes) <= 9
           /\ writes = SubSeq(StoreSequence(call.arg[1]), 1, Len(writes))

\* program_memory(6) has returned: its fifth packet was 00 1C
C30_Witness ==
    /\ call.method = "program_memory"
    /\ call.arg = <<6>>
    /\ pc = "done"
    /\ Len(writes) = 9
    /\ writes[5] = <<0, 28>>

(***************************************************************************)
(* C31: the Okin Nordic initialisation sequence (INIT_1 then INIT_2) is    *)
(* written exactly once per controller, immediately before the first       *)
(* command write, and no later command write is preceded by it.            *)
(***************************************************************************)
NordicInitPackets == {"INIT_1", "INIT_2"}

C31_InitSequenceOnceBeforeFirstCommand ==
    kind = "okin_nordic" =>
        /\ _initialized = (writes # <<>>)
        /\ writes # <<>> =>
              /\ Len(writes) >= 3
              /\ writes[1] = "INIT_1"
              /\ writes[2] = "INIT_2"
              /\ \A i \in 3..Len(writes) : writes[i] \notin NordicInitPackets

\* Two commands were written by two calls, the second with repeats.
C31_Witness ==
    /\ kind = "okin_nordic"
    /\ _initialized
    /\ Len(writes) = 6
    /\ writes[3] = "HEAD_UP"
    /\ writes[4] = "LIGHT_OFF_HOLD"
    /\ writes[6] = "LIGHT_OFF_HOLD"
    /\ call.arg = <<"LIGHT_OFF_HOLD", 3>>

(***************************************************************************)
(* C32: when the Jensen capability query times out, every optional feature *)
(* (head massage, foot massage, main light, under-bed light and fan) is    *)
(* reported as supported, and the configuration is marked loaded.          *)
(***************************************************************************)
C32_TimeoutEnablesEveryFeature ==
    [][QueryTook({"timeout"})
          => /\ _config_loaded'
             /\ has_massage_head'
             /\ has_massage_foot'
             /\ supports_lights'
             /\ supports_under_bed_lights'
             /\ has_fan']_vars

\* What does hold after the timeout: the four features other than the fan
C32_TimeoutEnablesMassageAndLights ==
    [][QueryTook({"timeout"})
          => /\ _config_loaded'
             /\ has_massage_head'
             /\ has_massage_foot'
             /\ supports_lights'
             /\ supports_under_bed_lights'
             /\ ~has_fan']_vars

(***************************************************************************)
(* C33: the locally tracked on/off and level state (Jensen light and       *)
(* massage flags; CB24 new-protocol light flag, massage on/off flag and    *)
(* massage levels) changes only when the write succeeds: if the write      *)
(* raises, the tracked state is the same as before the call.               *)
(***************************************************************************)
WriteRaised == call'.seq # call.seq /\ call'.raised \in {"BleakError", "ConnectionError"}

C33_TrackedStateKeptWhenWriteRaises ==
    [][WriteRaised
          => UNCHANGED <<_lights_on, _underbed_lights_on, _massage_head_on,
                         _massage_foot_on, _massage_on, _massage_head_level,
                         _massage_foot_level>>]_vars

\* What does hold of the CB24 controller: the methods other than
\* massage_toggle and massage_off keep the tracked state when the write raises
C33_KeptExceptByMassageToggleAndOff ==
    [][(WriteRaised /\ call'.method \notin {"massage_toggle", "massage_off"})
          => UNCHANGED <<_lights_on, _underbed_lights_on, _massage_head_on,
                         _massage_foot_on, _massage_on, _massage_head_level,
                         _massage_foot_level>>]_vars

(***************************************************************************)
(* C34: after any sequence of successful Jensen massage_head_toggle,       *)
(* massage_foot_toggle, massage_toggle and massage_off calls, the last     *)
(* massage packet written encodes exactly the locally tracked pair (head   *)
(* on/off, foot on/off): OFF for neither, HEAD_ON for head only, FOOT_ON   *)
(* for foot only, BOTH_ON for both.  As a property of every step: a        *)
(* massage call whose write succeeds writes the packet of the pair it      *)
(* leaves behind, and no other step changes the pair, except a massage     *)
(* call that returns without writing because the shared cancel event is    *)
(* set.                                                                    *)
(***************************************************************************)
JensenMassageMethods ==
    {"massage_head_toggle", "massage_foot_toggle", "massage_toggle", "massage_off"}

MassagePacketOf(head, foot) ==
    CASE head /\ foot -> <<18, 5, 5, 0, 0, 0>>
      [] head /\ ~foot -> <<18, 5, 0, 0, 0, 0>>
      [] ~head /\ foot -> <<18, 0, 5, 0, 0, 0>>
      [] ~head /\ ~foot -> <<18, 0, 0, 0, 0, 0>>

C35_AdaptiveAndContinuousExclusive ==
    kind = "cb24" =>
        /\ ~(_adaptive_preset_fallback /\ _continuous_presets)
        /\ _is_new_protocol => (~_adaptive_preset_fallback /\ ~_continuous_presets)

\* a controller constructed with the fallback enabled has been promoted
C35_Witness ==
    /\ kind = "cb24"
    /\ ctor_args.adaptive_preset_fallback
    /\ everPromoted
    /\ _continuous_presets
    /\ ~_adaptive_preset_fallback

\* a new-protocol controller constructed with the fallback asked for has
\* sent presets
C35_WitnessNewProtocol ==
    /\ kind = "cb24"
    /\ _is_new_protocol
    /\ ctor_args.adaptive_preset_fallback
    /\ Len(reqs) >= 2

(***************************************************************************)
(* C36: preset_memory(n) issues BLE writes if and only if                  *)
(* 1 <= n <= memory_slot_count of that controller; for every other n it    *)
(* only logs a warning and issues no write.  A number inside the range     *)
(* leads to a write_command call with the slot's packet, which writes it   *)
(* unless the client is not connected or the cancel event is set; a        *)
(* number outside the range leads to no call, no write and no error.       *)
(***************************************************************************)
\* The slot a memory preset in progress was asked for (0: another preset)
MemorySlotOf(theOp) ==
    IF kind = "jensen" THEN theOp.command_value
    ELSE CASE theOp.command_value = 8192 -> 1
           [] theOp.command_value = 16384 -> 2
           [] theOp.command_value = 65536 -> 3
           [] OTHER -> 0

MemoryPacketOf(slot) ==
    IF kind = "jensen" THEN <<16, 128, 0, 0, 0, 0>>
    ELSE IF _is_new_protocol THEN <<42, 0, 0, 1, 3, 1, CASE slot = 1 -> 2 [] slot = 2 -> 3
                                                         [] OTHER -> 5>>
    ELSE <<5, 2, 0, CASE slot = 3 -> 1 [] OTHER -> 0,
           CASE slot = 1 -> 32 [] slot = 2 -> 64 [] OTHER -> 0, 0, _bed_selection>>

C36_PresetMemoryWritesIffSlotInRange ==
    /\ op.name = "preset_memory"
          => /\ op.command_value \notin 1..memory_slot_count
             /\ pc = "done"
             /\ log = EmptyLog
             /\ result = [exc |-> "ok", origin |-> "primary"]
    /\ (op.name = "preset" /\ MemorySlotOf(op) # 0)
          => /\ MemorySlotOf(op) \in 1..memory_slot_count
             /\ log.calls # <<>>
             /\ log.calls[1].command = MemoryPacketOf(MemorySlotOf(op))
             /\ \/ log.primaryWrites >= 1
                \/ log.primaryConn = "no"
                \/ log.cancelled = "event"

\* slot 3 of a CB24 controller was written, and ...
C36_Witness ==
    /\ kind = "cb24"
    /\ op.name = "preset"
    /\ MemorySlotOf(op) = 3
    /\ pc = "done"
    /\ log.primaryWrites >= 1
    /\ log.lastWrite = MemoryPacketOf(3)

\* ... slot 2 of a Jensen controller was asked for on a connected client
C36_WitnessIgnored ==
    /\ kind = "jensen"
    /\ op.name = "preset_memory"
    /\ op.command_value = 2
    /\ connected
    /\ ~cancel_command
    /\ log.nWrites = 0

(***************************************************************************)
(* C37: stop_all (and each move_*_stop of the Jensen controller) writes    *)
(* the STOP packet even when the coordinator's shared cancel event is      *)
(* already set at the time of the call, because the write is given its     *)
(* own un-set cancel event.                                                *)
(***************************************************************************)
IsStopOp(theOp) ==
    \/ theOp.name = "stop_all"
    \/ kind = "jensen" /\ theOp.name = "move" /\ theOp.direction = "stop"

\* The step starts stop_all or a Jensen move_*_stop on a connected client
\* while the shared cancel event is set.
StopCalledWhileCancelled ==
    /\ pc \in {"idle", "done"}
    /\ connected
    /\ cancel_command
    /\ IsStopOp(op')
    /\ op' # op \/ pc' # pc \/ result' # result

C37_StopWrittenDespiteCancel ==
    [][StopCalledWhileCancelled
          => /\ pc' = "writing"
             /\ frame'.command = StopPacket
             /\ frame'.cancel_event = "fresh"
             /\ log'.lastWrite = StopPacket
             /\ log'.primaryWrites = 1]_vars

\* the STOP write of a Jensen move_*_stop is in flight while the shared
\* cancel event is set
C37_Witness ==
    /\ kind = "jensen"
    /\ op.name = "move"
    /\ op.direction = "stop"
    /\ pc = "writing"
    /\ cancel_command
    /\ frame.command = JENSEN_MOTOR_STOP
    /\ frame.cancel_event = "fresh"
    /\ log.primaryWrites = 1

(***************************************************************************)
(* C38: every notification subscription that Jensen query_config opens     *)
(* with start_notify is closed with stop_notify before query_config        *)
(* returns, on every exit path (response received, timeout, transport      *)
(* error).                                                                 *)
(***************************************************************************)
C38_SubscriptionClosedOnReturn ==
    [][(IsCall("query_config") /\ call'.raised = "none") => ~notifying']_vars

\* What does hold: stop_notify is called when a notification arrived in time
C38_SubscriptionClosedAfterResponse ==
    [][QueryTook({"response", "stop_notify_error"}) => ~notifying']_vars

(***************************************************************************)
(* C39: at the start of every CB24 _move_motor call the motor-state        *)
(* mapping is empty, so each movement packet carries only the direction    *)
(* bit of the one motor requested by that call, and a move_*_stop call     *)
(* writes nothing but the STOP packet.                                     *)
(***************************************************************************)
\* The direction bit of one motor
DirectionBit(motor, direction) ==
    CASE direction = "stop" -> 0
      [] motor = "head" /\ direction = "up" -> 1
      [] motor = "head" /\ direction = "down" -> 2
      [] motor = "feet" /\ direction = "up" -> 4
      [] motor = "feet" /\ direction = "down" -> 8

C39_OneMotorPerMove ==
    kind = "cb24" =>
        /\ pc \in {"idle", "done"} => _motor_state = NoMotorState
        /\ op.name = "move" =>
              /\ op.command_value = DirectionBit(op.motor, op.direction)
              /\ op.direction # "stop" =>
                    /\ log.calls # <<>>
                    /\ log.calls[1].command
                          = _build_motor_command(DirectionBit(op.motor, op.direction))
                    /\ \A i \in 2..Len(log.calls) : log.calls[i].command = StopPacket
              /\ op.direction = "stop" =>
                    /\ log.primaryWrites = 0
                    /\ \A i \in 1..Len(log.calls) : log.calls[i].command = StopPacket
                    /\ log.lastWrite \in {NoPacket, StopPacket}

\* feet up is being written while the STOP task of an earlier, cancelled
\* operation is still pending
C39_Witness ==
    /\ kind = "cb24"
    /\ op.name = "move"
    /\ op.motor = "feet"
    /\ op.direction = "up"
    /\ op.command_value = 4
    /\ pc = "writing"
    /\ frame.role = "primary"
    /\ shielded.stale # NoTask

\* move_head_stop has ended after writing the STOP packet only
C39_WitnessStop ==
    /\ kind = "cb24"
    /\ op.name = "move"
    /\ op.direction = "stop"
    /\ Ended
    /\ log.nWrites = 1
    /\ log.lastWrite = StopPacket

(***************************************************************************)
(* C40: on a new-protocol CB24 controller, after any sequence of massage   *)
(* calls (including calls whose write fails), the tracked head and foot    *)
(* massage levels stay within 0..3, and successive massage_mode_step calls *)
(* move the massage mode through 1, 2, 3, 4 and back to 1.                 *)
(***************************************************************************)
C40_LevelsBoundedModeCycles ==
    /\ []((kind = "cb24" /\ _is_new_protocol)
            => /\ _massage_head_level \in 0..3
               /\ _massage_foot_level \in 0..3
               /\ _massage_mode \in 0..4)
    /\ [][(kind = "cb24" /\ _is_new_protocol)
            => /\ IsCall("massage_mode_step")
                    => _massage_mode' = (IF _massage_mode \in {0, 4} THEN 1
                                         ELSE _massage_mode + 1)
               /\ _massage_mode' # _massage_mode => IsCall("massage_mode_step")]_vars

\* head massage was raised to the top level, with the fourth mode selected
C40_Witness ==
    /\ kind = "cb24"
    /\ _is_new_protocol
    /\ call.method = "massage_head_up"
    /\ call.raised = "none"
    /\ writes = <<build_cbnew_massage_command(82)>>
    /\ _massage_head_level = 3
    /\ _massage_foot_level = 3
    /\ _massage_mode = 4

\* a massage_mode_step whose write failed took the mode from 4 back to 1
C40_WitnessModeWrapped ==
    /\ kind = "cb24"
    /\ _is_new_protocol
    /\ call.method = "massage_mode_step"
    /\ call.raised = "BleakError"
    /\ _massage_mode = 1
    /\ _massage_head_level = 3

====
